---- MODULE Spec2Model ----
(***************************************************************************)
(* Model of the spreadsheet ingestion engine of the airline test-case      *)
(* generator: the header-to-field mapper (detectColumnMapping), the row    *)
(* normalizer (parseRow / parseUserStoryRow) and the batch parser          *)
(* (parseExcelFile / parseWorksheet).                                      *)
(*                                                                         *)
(* The repository holds two live implementations of the parser:            *)
(*   "backend" : src/apps/backend/src/services/excel-parser.ts             *)
(*   "copy"    : src/apps copy/backend/src/services/excel-parser.ts        *)
(* The variable impl says which of the two a behaviour runs.               *)
(*                                                                         *)
(* Strings.  A raw cell is a record [kind, text, pad]: kind is the         *)
(* JavaScript typeof of the value, text is its content without surrounding *)
(* whitespace (case kept) and pad says whether whitespace surrounds it.    *)
(* trim() clears pad, toLowerCase() maps text through LowerCaseText, an     *)
(* anchored /^(...)$/i pattern matches a string exactly when it carries no *)
(* padding and its lower-cased text is one of the alternatives.            *)
(***************************************************************************)
EXTENDS Integers, Sequences, FiniteSets, TLC

VARIABLES
    impl,          \* which implementation runs: "backend" or "copy"
    readable,      \* whether XLSX.read / sheet_to_json decode the file
    jsonData,      \* the decoded grid: a sequence of rows of raw cells
    pc,            \* position of the parse: "start", "rows", "done"
    columnMapping, \* result of detectColumnMapping
    rowIndex,      \* 0-based index of the next data row of the loop
    stories,       \* records accumulated so far
    errors,        \* error messages accumulated so far
    normalized,    \* log of the calls of the row normalizer (row numbers)
    result,        \* the ParseResult returned (meaningful when pc = "done")
    story,         \* Record Validator: the record object handed to it
    passed,        \* Record Validator: the record as the caller built it
    validation,    \* Record Validator: what the call returned
    worksheet,     \* the parser object's worksheet field (this.worksheet)
    calls,         \* the parse invocations started on one parser object
    context,       \* mock provider: the TestGenerationContext of the call
    clock,         \* mock provider: what Date.now() last returned
    testCases,     \* mock provider: the artifacts pushed so far
    position,      \* mock provider: where the loops of the call stand
    generation,    \* mock provider: the TestGenerationResult returned
    env,           \* registry: which credentials the environment holds
    providers,     \* registry: the keys of the providers Map, in insertion order
    instances,     \* registry: the values of the providers Map, key by key
    query,         \* registry: the last read operation and what it returned
    defaultProvider, \* registry: the defaultProvider field
    request,       \* registry: the generate request being served
    rpc,           \* registry: position of AIService.generateTestCases
    invoked,       \* registry: provider methods invoked by the request
    outcome,       \* registry: how the request ended
    adapter,       \* remote adapter: its class, the context, where the call stands
    exchange,      \* remote adapter: the prompt sent and what the service did
    reply          \* remote adapter: what generateTestCases returned or threw

\* the state of one run of the batch parser
parserVars == <<impl, readable, jsonData, pc, columnMapping, rowIndex, stories,
                errors, normalized, result>>

\* the state of one call of the Record Validator
validatorVars == <<story, passed, validation>>

\* the parser object shared by several invocations, and the invocations
sessionVars == <<worksheet, calls>>

\* one generateTestCases call of the mock provider
mockVars == <<context, clock, testCases, position, generation>>

\* the provider registry (AIService) and the request it serves
registryVars == <<env, providers, instances, defaultProvider, request, rpc,
                  invoked, outcome, query>>

\* one generateTestCases call of a remote adapter (OpenAI, Gemini)
adapterVars == <<adapter, exchange, reply>>

\* what a run of the batch parser leaves alone
otherVars == <<validatorVars, sessionVars, mockVars, registryVars, adapterVars>>

\* what a call of the Record Validator leaves alone
exceptValidator ==
    <<parserVars, sessionVars, mockVars, registryVars, adapterVars>>

\* what the invocations on a shared parser object leave alone
exceptSession ==
    <<parserVars, validatorVars, mockVars, registryVars, adapterVars>>

\* what a call of the mock provider leaves alone
exceptMock ==
    <<parserVars, validatorVars, sessionVars, registryVars, adapterVars>>

\* what the provider registry leaves alone
exceptRegistry ==
    <<parserVars, validatorVars, sessionVars, mockVars, adapterVars>>

\* what a call of a remote adapter leaves alone
exceptAdapter ==
    <<parserVars, validatorVars, sessionVars, mockVars, registryVars>>

vars == <<parserVars, otherVars>>

\* no call of the Record Validator is under way
ValidatorIdle ==
    /\ story = [present |-> FALSE]
    /\ passed = [present |-> FALSE]
    /\ validation = [called |-> FALSE]

\* no invocation has been started on a shared parser object
SessionIdle ==
    /\ worksheet = [loaded |-> FALSE]
    /\ calls = <<>>

\* the mock provider has not been called
MockIdle ==
    /\ context = [userStories |-> <<>>, selectedModules |-> <<>>]
    /\ clock = 0
    /\ testCases = <<>>
    /\ position = [pair |-> 0, phase |-> "idle"]
    /\ generation = [returned |-> FALSE]

\* no provider registry has been constructed
RegistryIdle ==
    /\ env = [openai |-> FALSE, gemini |-> FALSE]
    /\ providers = <<>>
    /\ instances = <<>>
    /\ defaultProvider = "mock"
    /\ request = [providerName |-> "", isValid |-> FALSE]
    /\ rpc = "none"
    /\ invoked = <<>>
    /\ outcome = "none"
    /\ query = [op |-> "none"]

\* no remote adapter has been called
AdapterIdle ==
    /\ adapter = [pc |-> "idle"]
    /\ exchange = [sent |-> FALSE]
    /\ reply = [kind |-> "none"]

OthersIdle ==
    ValidatorIdle /\ SessionIdle /\ MockIdle /\ RegistryIdle /\ AdapterIdle

-----------------------------------------------------------------------------
(* Bounds of the model. *)

\* longest header row of the grids that exercise the mapper
MaxCols == 4
\* largest number of data rows of the grids that exercise the batch parser
MaxRows == 2

-----------------------------------------------------------------------------
(* Raw cells and the JavaScript string primitives the parser applies. *)

Str(s) == [kind |-> "string", text |-> s, pad |-> FALSE]
Padded(s) == [kind |-> "string", text |-> s, pad |-> TRUE]
Num(s) == [kind |-> "number", text |-> s, pad |-> FALSE]
Bool(s) == [kind |-> "boolean", text |-> s, pad |-> FALSE]

\* `!value` is false: a non-empty string (whitespace counts), a number other
\* than 0, the boolean true.
Truthy(cell) ==
    CASE cell.kind = "string" -> cell.text # "" \/ cell.pad
      [] cell.kind = "number" -> cell.text # "0"
      [] cell.kind = "boolean" -> cell.text = "true"
      [] OTHER -> FALSE

IsString(cell) == cell.kind = "string"

\* String.prototype.trim
Trim(cell) == [cell EXCEPT !.pad = FALSE]

\* String.prototype.toLowerCase on the texts the model uses
LowerCaseText(s) ==
    CASE s = "Description" -> "description"
      [] s = "Title" -> "title"
      [] s = "Given" -> "given"
      [] s = "When" -> "when"
      [] s = "Then" -> "then"
      [] s = "ACTION" -> "action"
      [] s = "Precondition" -> "precondition"
      [] s = "Result" -> "result"
      [] s = "Notes" -> "notes"
      [] s = "Outcome" -> "outcome"
      [] s = "High" -> "high"
      [] OTHER -> s

ToLowerCase(cell) == [cell EXCEPT !.text = LowerCaseText(cell.text)]

\* String(value) / value.toString()
StringOf(cell) == [kind |-> "string", text |-> cell.text, pad |-> cell.pad]

-----------------------------------------------------------------------------
(* Field Pattern Registry. *)

\* An optional separator `.?` is written out for no separator and a space.

\* backend: ExcelParser.columnPatterns, in declaration order
FieldOrderBackend ==
    <<"id", "description", "asA", "iWant", "soThat", "acceptanceCriteria",
      "requirements", "given", "when", "then", "notes", "acId">>

columnPatterns ==
    [id |->
        {"id", "storyid", "story id", "userstoryid", "user story id"},
     description |->
        {"description", "storydescription", "story description", "title"},
     asA |->
        {"asa", "as a", "role", "userrole", "user role", "persona"},
     iWant |->
        {"iwant", "i want", "want", "goal", "objective"},
     soThat |->
        {"sothat", "so that", "benefit", "value", "outcome"},
     acceptanceCriteria |->
        {"acceptancecriteria", "acceptance criteria", "ac", "criteria"},
     requirements |->
        {"requirements", "requirement", "req", "specification"},
     given |->
        {"given", "precondition", "setup"},
     when |->
        {"when", "action", "step"},
     then |->
        {"then", "expected", "result", "outcome"},
     notes |->
        {"notes", "note", "comments", "comment", "remarks", "remark"},
     acId |->
        {"acid", "ac id", "criteriaid", "criteria id"}]

\* copy: the local `patterns` of detectColumnMapping, in declaration order
FieldOrderCopy ==
    <<"id", "description", "asA", "iWant", "soThat", "acceptanceCriteria",
      "requirements", "notes", "acId", "given", "when", "then", "tags",
      "priority">>

patterns ==
    [id |->
        {"id", "storyid", "story id", "userstoryid", "user story id"},
     description |->
        {"description", "story", "title", "summary"},
     asA |->
        {"asa", "as a", "role", "usertype", "user type", "actor"},
     iWant |->
        {"iwant", "i want", "want", "goal", "objective"},
     soThat |->
        {"sothat", "so that", "benefit", "value", "outcome"},
     acceptanceCriteria |->
        {"acceptancecriteria", "acceptance criteria", "ac", "criteria", "acceptance"},
     requirements |->
        {"requirements", "requirement", "req", "businessrules", "business rules", "businessrule", "business rule"},
     notes |->
        {"notes", "note", "comments", "comment", "remarks", "remark"},
     acId |->
        {"acid", "ac id", "criteriaid", "criteria id", "acceptanceid", "acceptance id"},
     given |->
        {"given", "precondition", "setup"},
     when |->
        {"when", "action", "trigger", "event"},
     then |->
        {"then", "expected", "result", "outcome"},
     tags |->
        {"tags", "tag", "labels", "label", "categories", "categorie"},
     priority |->
        {"priority", "importance", "level"}]

FieldOrder(i) == IF i = "backend" THEN FieldOrderBackend ELSE FieldOrderCopy

\* the keys of the mapping object
Fields(i) == IF i = "backend" THEN DOMAIN columnPatterns ELSE DOMAIN patterns

\* pattern.test(s) of an anchored, case-insensitive alternation
PatternTest(i, field, cell) ==
    /\ ~cell.pad
    /\ LowerCaseText(cell.text) \in
         (IF i = "backend" THEN columnPatterns[field] ELSE patterns[field])

requiredFields == {"description", "given", "when", "then"}

\* the order in which the required fields are validated
requiredOrder == <<"description", "given", "when", "then">>

-----------------------------------------------------------------------------
(* Header-to-Field Mapper: detectColumnMapping. *)

\* a field without a column: null (backend), a missing key (copy)
Absent == -1

\* the mapping object before any header is scanned
EmptyMapping(i) == [f \in Fields(i) |-> Absent]

\* whether the scan may assign `field`: always (backend); `!mapping[key]`,
\* true of a missing key and of column index 0 (copy)
Claimable(i, mapping, field) ==
    \/ i = "backend"
    \/ mapping[field] = Absent
    \/ mapping[field] = 0

\* position in the enumeration order of the field the inner loop assigns
\* (the first pattern that passes the test, then break), 0 when none does
FirstMatch(i, mapping, clean) ==
    LET order == FieldOrder(i)
        hits == {k \in 1..Len(order) :
                   /\ PatternTest(i, order[k], clean)
                   /\ Claimable(i, mapping, order[k])}
    IN IF hits = {} THEN 0 ELSE CHOOSE k \in hits : \A j \in hits : k <= j

\* header.trim().toLowerCase() (backend), header.toString().trim() (copy)
CleanHeader(i, header) ==
    IF i = "backend" THEN ToLowerCase(Trim(header)) ELSE Trim(StringOf(header))

\* mutant of MapHeader: the inner loop has no `break`, every field whose
\* pattern passes the test is given the column
MapHeaderNoBreak(i, mapping, header, index) ==
    IF ~Truthy(header) \/ ~IsString(header)
    THEN mapping
    ELSE [f \in DOMAIN mapping |->
            IF /\ PatternTest(i, f, CleanHeader(i, header))
               /\ Claimable(i, mapping, f)
            THEN index ELSE mapping[f]]

\* the forEach callback for the header at 0-based column `index`
MapHeader(i, mapping, header, index) ==
    IF ~Truthy(header) \/ ~IsString(header)
    THEN mapping
    ELSE LET k == FirstMatch(i, mapping, CleanHeader(i, header))
         IN IF k = 0 THEN mapping
            ELSE [mapping EXCEPT ![FieldOrder(i)[k]] = index]

RECURSIVE ScanHeaders(_, _, _, _)
\* headerRow.forEach from column `index` on
ScanHeaders(i, mapping, headerRow, index) ==
    IF index >= Len(headerRow) THEN mapping
    ELSE ScanHeaders(i, MapHeader(i, mapping, headerRow[index + 1], index),
                     headerRow, index + 1)

\* mutant of HasRequiredFields: `some` in place of `every`
HasRequiredFieldsSome(mapping) == \E f \in requiredFields : mapping[f] # Absent

\* requiredFields.every(field => mapping[field] !== null)
HasRequiredFields(mapping) == \A f \in requiredFields : mapping[f] # Absent

\* the mapper's result: isNull says that it returned null (Rejected)
detectColumnMapping(i, headerRow) ==
    LET mapping == ScanHeaders(i, EmptyMapping(i), headerRow, 0)
    IN IF HasRequiredFields(mapping)
       THEN [isNull |-> FALSE, mapping |-> mapping]
       ELSE [isNull |-> TRUE, mapping |-> EmptyMapping(i)]

-----------------------------------------------------------------------------
(* Row Normalizer: parseRow (backend), parseUserStoryRow (copy). *)

\* backend getCellValue(columnIndex)
getCellValue(row, columnIndex) ==
    IF columnIndex = Absent \/ columnIndex >= Len(row) THEN ""
    ELSE LET value == row[columnIndex + 1]
         IN IF Truthy(value) THEN Trim(StringOf(value)).text ELSE ""

\* copy getValue(key): (row[index] || '').toString().trim()
getValue(row, mapping, key) ==
    LET index == mapping[key]
    IN IF index = Absent THEN ""
       ELSE IF index >= Len(row) THEN ""
       ELSE IF Truthy(row[index + 1])
            THEN Trim(StringOf(row[index + 1])).text ELSE ""

\* the extracted value of a field under either implementation
Extract(i, row, mapping, field) ==
    IF i = "backend" THEN getCellValue(row, mapping[field])
    ELSE getValue(row, mapping, field)

\* String(rowNumber).padStart(3, '0')
PadStart3(n) ==
    IF n < 10 THEN "00" \o ToString(n)
    ELSE IF n < 100 THEN "0" \o ToString(n)
    ELSE ToString(n)

\* the message of the Error thrown for a missing required field
RequiredMessage(i, field) ==
    IF i = "backend"
    THEN CASE field = "description" -> "Description is required"
           [] field = "given" -> "Given condition is required"
           [] field = "when" -> "When action is required"
           [] OTHER -> "Then result is required"
    ELSE CASE field = "description" -> "Description is required"
           [] field = "given" -> "Given clause is required"
           [] field = "when" -> "When clause is required"
           [] OTHER -> "Then clause is required"

\* tagsText.split(',').map(tag => tag.trim()).filter(Boolean)
SplitTags(text) ==
    CASE text = "" -> <<>>
      [] text = "smoke, login" -> <<"smoke", "login">>
      [] OTHER -> <<text>>

\* copy: the priority cell, lower-cased, when it is one of high/critical/low
ParsePriority(text) ==
    IF LowerCaseText(text) \in {"high", "critical", "low"}
    THEN LowerCaseText(text) ELSE "medium"

\* `a || b` on strings
OrElse(a, b) == IF a # "" THEN a ELSE b

NoStory == [id |-> ""]

\* the story object built once the four required fields are present
BuildStory(i, row, mapping, rowNumber) ==
    LET v(f) == Extract(i, row, mapping, f)
    IN IF i = "backend"
       THEN [id |-> OrElse(v("id"), "US-" \o PadStart3(rowNumber)),
             description |-> v("description"),
             asA |-> OrElse(v("asA"), "User"),
             iWant |-> OrElse(v("iWant"), v("description")),
             soThat |-> OrElse(v("soThat"), "I can achieve my goal"),
             acceptanceCriteria |-> v("acceptanceCriteria"),
             requirements |-> v("requirements"),
             given |-> v("given"), when |-> v("when"), then |-> v("then"),
             notes |-> v("notes"), acId |-> v("acId"),
             tags |-> <<>>, priority |-> "medium"]
       ELSE [id |-> OrElse(v("id"), "US-" \o PadStart3(rowNumber)),
             description |-> v("description"),
             asA |-> v("asA"), iWant |-> v("iWant"), soThat |-> v("soThat"),
             acceptanceCriteria |-> v("acceptanceCriteria"),
             requirements |-> v("requirements"),
             given |-> v("given"), when |-> v("when"), then |-> v("then"),
             notes |-> v("notes"), acId |-> v("acId"),
             tags |-> SplitTags(v("tags")),
             priority |-> ParsePriority(v("priority"))]

\* mutant of FirstMissing: only the description is checked
FirstMissingDescription(i, row, mapping) ==
    IF Extract(i, row, mapping, "description") = "" THEN 1 ELSE 0

\* position in requiredOrder of the first required field whose extracted
\* value is empty, 0 when none is: the order of the `throw` statements
FirstMissing(i, row, mapping) ==
    LET missing == {k \in 1..Len(requiredOrder) :
                      Extract(i, row, mapping, requiredOrder[k]) = ""}
    IN IF missing = {} THEN 0 ELSE CHOOSE k \in missing : \A j \in missing : k <= j

\* mutant of AllRequiredEmpty: the blank-row test looks at every mapped field
AllFieldsEmpty(i, row, mapping) ==
    \A f \in Fields(i) : Extract(i, row, mapping, f) = ""

\* `!description && !given && !when && !then`
AllRequiredEmpty(i, row, mapping) ==
    \A f \in requiredFields : Extract(i, row, mapping, f) = ""

\* outcome of one call: "skip" (returns null), "error" (throws), "story"
parseRow(i, row, mapping, rowNumber) ==
    IF AllRequiredEmpty(i, row, mapping)
    THEN [kind |-> "skip", message |-> "", story |-> NoStory]
    ELSE IF FirstMissing(i, row, mapping) # 0
    THEN [kind |-> "error",
          message |-> RequiredMessage(i, requiredOrder[FirstMissing(i, row, mapping)]),
          story |-> NoStory]
    ELSE [kind |-> "story", message |-> "",
          story |-> BuildStory(i, row, mapping, rowNumber)]

-----------------------------------------------------------------------------
(* The grids the parser is run on. *)

Impls == {"backend", "copy"}

\* header cells: one synonym of each required field (padded, upper-case),
\* the synonym two patterns share, and a non-string cell
HeaderCells ==
    {Str("description"), Padded("Given"), Str("ACTION"), Str("then"),
     Str("outcome"), Num("42")}

\* header rows with empty and whitespace-only cells, and the synonym rows
EdgeHeaders ==
    {<<Str(""), Str("")>>,
     <<Padded(""), Str(""), Num("0"), Bool("true")>>,
     <<Str(""), Str("description"), Str("Given"), Padded("When"), Str("then")>>,
     <<Str("Title"), Str("Precondition"), Str("ACTION"), Str("Result")>>,
     <<Str("Title"), Str("Precondition"), Str("ACTION"), Str("Outcome")>>,
     <<Str("Description"), Str("Given"), Str("When"), Str("Then"), Str("Title")>>,
     <<Str("id"), Str("Description"), Str("Given"), Str("When"), Str("Then"),
       Str("Title"), Str("Result")>>,
     <<Str("benefit"), Str("Title"), Str("Given"), Str("When"), Str("Outcome")>>,
     <<Str("Description"), Str("Given"), Str("When"), Str("Then"),
       Str("Outcome")>>}

HeaderRows == EdgeHeaders \cup UNION {[1..k -> HeaderCells] : k \in 0..MaxCols}

\* a data row with text in each of its n cells
SampleRow(n) == [c \in 1..n |-> Str("x")]

\* any header row, followed by one full data row
MapperGrids == {<<h, SampleRow(Len(h))>> : h \in HeaderRows}

\* header rows of the grids that exercise the batch parser: the canonical
\* one, and synonyms in another column order followed by optional columns
BatchHeaders ==
    {<<Str("Description"), Str("Given"), Str("When"), Str("Then")>>,
     <<Str("Result"), Str("ACTION"), Str("Precondition"), Str("Title"),
       Str("Notes"), Str("id")>>}

\* data rows: every choice of empty and filled over four columns, and rows
\* with whitespace, padding, non-string cells, fewer or more cells
DataRows ==
    [1..4 -> {Str(""), Str("x")}]
      \cup {<<>>,
            <<Padded(""), Str(""), Padded(""), Str("")>>,
            <<Padded("Login works"), Str("Given A"), Str("When B"), Str("Then C")>>,
            <<Num("0"), Str("x"), Bool("true"), Str("x")>>,
            <<Str(""), Str(""), Str(""), Padded(""), Str("n"), Str("US-7")>>,
            <<Str("x"), Str("x"), Str("x"), Str("x"), Str("n"), Str("US-7")>>}

DataRowSeqs == UNION {[1..n -> DataRows] : n \in 0..MaxRows}

BatchGrids == {<<>>} \cup {<<h>> \o rows : h \in BatchHeaders, rows \in DataRowSeqs}

InputGrids == MapperGrids \cup BatchGrids

-----------------------------------------------------------------------------
(* Batch Parser: parseExcelFile (backend), parseGherkinFile/parseWorksheet  *)
(* (copy).  The ParseResult is [success, data, errors, totalRows,           *)
(* validRows]; the copy names the last three userStories,                   *)
(* summary.totalRows and summary.validStories.                              *)

headerRow == jsonData[1]

\* jsonData.slice(1)
dataRows == SubSeq(jsonData, 2, Len(jsonData))

NoResult ==
    [success |-> FALSE, data |-> <<>>, errors |-> <<>>, totalRows |-> 0,
     validRows |-> 0]

TooFewRowsMessage(i) ==
    IF i = "backend"
    THEN "File must contain at least a header row and one data row"
    ELSE "Excel file must contain at least a header row and one data row"

RejectedMessage(i) ==
    IF i = "backend"
    THEN "Unable to detect required columns. Please ensure your Excel file has proper headers."
    ELSE "Could not detect valid Gherkin format columns. Please check your Excel structure."

\* the report of the two pre-checks
FatalResult(message) ==
    [success |-> FALSE, data |-> <<>>, errors |-> <<message>>,
     totalRows |-> Len(jsonData), validRows |-> 0]

\* the report of the catch block around the decoding of the file
CatchResult ==
    [success |-> FALSE, data |-> <<>>,
     errors |-> <<"Failed to parse Excel file: Unknown error">>,
     totalRows |-> 0, validRows |-> 0]

\* mutant of RowNumber: the header row is not counted
RowNumberOffByOne(i, index) == index + 1

\* the row number handed to the normalizer and printed in error messages:
\* rowIndex + 2 over dataRows (backend); the copy's loop runs over jsonData
\* from 1 and uses its index + 1
RowNumber(i, index) == IF i = "backend" THEN index + 2 ELSE (index + 1) + 1

\* `Row ${rowNumber}: ${error.message}`
RowError(rowNumber, message) == "Row " \o ToString(rowNumber) \o ": " \o message

\* errors.length === 0 (backend); userStories.length > 0 (copy)
Success(i, userStories, errs) ==
    IF i = "backend" THEN Len(errs) = 0 ELSE Len(userStories) > 0

\* mutant of FinalResult: validRows counts every row that raised no error
FinalResultCountsBlank(i, userStories, errs) ==
    [success |-> Success(i, userStories, errs),
     data |-> userStories,
     errors |-> errs,
     totalRows |-> Len(jsonData) - 1,
     validRows |-> (Len(jsonData) - 1) - Len(errs)]

\* the report after the loop over the data rows
FinalResult(i, userStories, errs) ==
    [success |-> Success(i, userStories, errs),
     data |-> userStories,
     errors |-> errs,
     totalRows |-> IF i = "backend" THEN Len(dataRows) ELSE Len(jsonData) - 1,
     validRows |-> Len(userStories)]

Init ==
    /\ impl \in Impls
    /\ \/ readable = TRUE /\ jsonData \in InputGrids
       \/ readable = FALSE /\ jsonData = <<>>
    /\ pc = "start"
    /\ columnMapping = [isNull |-> TRUE, mapping |-> EmptyMapping(impl)]
    /\ rowIndex = 0
    /\ stories = <<>>
    /\ errors = <<>>
    /\ normalized = <<>>
    /\ result = NoResult
    /\ OthersIdle

\* the decoding throws: the catch block returns
ReadFails ==
    /\ pc = "start"
    /\ ~readable
    /\ pc' = "done"
    /\ result' = CatchResult
    /\ UNCHANGED <<impl, readable, jsonData, columnMapping, rowIndex, stories,
                   errors, normalized>>
    /\ UNCHANGED otherVars

\* jsonData.length < 2
TooFewRows ==
    /\ pc = "start"
    /\ readable
    /\ Len(jsonData) < 2
    /\ pc' = "done"
    /\ result' = FatalResult(TooFewRowsMessage(impl))
    /\ UNCHANGED <<impl, readable, jsonData, columnMapping, rowIndex, stories,
                   errors, normalized>>
    /\ UNCHANGED otherVars

\* mutant of HeaderRejected: the null mapping is not checked and the loop
\* over the data rows starts
HeaderRejectedContinues ==
    /\ pc = "start"
    /\ readable
    /\ Len(jsonData) >= 2
    /\ LET detected == detectColumnMapping(impl, headerRow)
       IN /\ detected.isNull
          /\ columnMapping' = detected
    /\ pc' = "rows"
    /\ UNCHANGED <<impl, readable, jsonData, rowIndex, stories, errors,
                   normalized, result>>
    /\ UNCHANGED otherVars

\* detectColumnMapping returned null
HeaderRejected ==
    /\ pc = "start"
    /\ readable
    /\ Len(jsonData) >= 2
    /\ LET detected == detectColumnMapping(impl, headerRow)
       IN /\ detected.isNull
          /\ columnMapping' = detected
    /\ pc' = "done"
    /\ result' = FatalResult(RejectedMessage(impl))
    /\ UNCHANGED <<impl, readable, jsonData, rowIndex, stories, errors,
                   normalized>>
    /\ UNCHANGED otherVars

\* detectColumnMapping returned a mapping: the loop over the data rows starts
HeaderMapped ==
    /\ pc = "start"
    /\ readable
    /\ Len(jsonData) >= 2
    /\ LET detected == detectColumnMapping(impl, headerRow)
       IN /\ ~detected.isNull
          /\ columnMapping' = detected
    /\ pc' = "rows"
    /\ UNCHANGED <<impl, readable, jsonData, rowIndex, stories, errors,
                   normalized, result>>
    /\ UNCHANGED otherVars

\* mutant of ParseDataRow: no try/catch, a row error ends the loop
ParseDataRowAborts ==
    /\ pc = "rows"
    /\ rowIndex < Len(dataRows)
    /\ LET rowNumber == RowNumber(impl, rowIndex)
           out == parseRow(impl, dataRows[rowIndex + 1], columnMapping.mapping,
                           rowNumber)
       IN /\ normalized' = Append(normalized, rowIndex)
          /\ stories' = IF out.kind = "story" THEN Append(stories, out.story)
                        ELSE stories
          /\ errors' = IF out.kind = "error"
                       THEN Append(errors, RowError(rowNumber, out.message))
                       ELSE errors
          /\ rowIndex' = IF out.kind = "error" THEN Len(dataRows)
                         ELSE rowIndex + 1
    /\ UNCHANGED <<impl, readable, jsonData, pc, columnMapping, result>>
    /\ UNCHANGED otherVars

\* one iteration of the loop: try { parseRow; push } catch { errors.push }
ParseDataRow ==
    /\ pc = "rows"
    /\ rowIndex < Len(dataRows)
    /\ LET rowNumber == RowNumber(impl, rowIndex)
           out == parseRow(impl, dataRows[rowIndex + 1], columnMapping.mapping,
                           rowNumber)
       IN /\ normalized' = Append(normalized, rowIndex)
          /\ stories' = IF out.kind = "story" THEN Append(stories, out.story)
                        ELSE stories
          /\ errors' = IF out.kind = "error"
                       THEN Append(errors, RowError(rowNumber, out.message))
                       ELSE errors
    /\ rowIndex' = rowIndex + 1
    /\ UNCHANGED <<impl, readable, jsonData, pc, columnMapping, result>>
    /\ UNCHANGED otherVars

\* the loop is over: the report is returned
Finish ==
    /\ pc = "rows"
    /\ rowIndex >= Len(dataRows)
    /\ pc' = "done"
    /\ result' = FinalResult(impl, stories, errors)
    /\ UNCHANGED <<impl, readable, jsonData, columnMapping, rowIndex, stories,
                   errors, normalized>>
    /\ UNCHANGED otherVars

Next ==
    \/ ReadFails
    \/ TooFewRows
    \/ HeaderRejected
    \/ HeaderMapped
    \/ ParseDataRow
    \/ Finish

Spec == Init /\ [][Next]_vars

-----------------------------------------------------------------------------
(* Vocabulary of the properties, stated on the grid and not on the code's  *)
(* intermediate values.                                                    *)

\* the header cell is a string that, trimmed and in any letter case, is a
\* synonym the registry lists for the field
Recognises(field, cell) ==
    /\ cell.kind = "string"
    /\ LowerCaseText(cell.text) \in
         (IF impl = "backend" THEN columnPatterns[field] ELSE patterns[field])

\* the columns (1-based) of the header row that are recognised for the field
ColumnsOf(field) ==
    {c \in 1..Len(headerRow) : Recognises(field, headerRow[c])}

\* the mapper has run on the header row of a grid with data
MapperRan == pc # "start" /\ readable /\ Len(jsonData) >= 2

Least(S) == CHOOSE x \in S : \A y \in S : x <= y

\* C1: when two or more columns match the pattern of the same field, the
\* returned mapping gives the field the leftmost of them, and no later one of
\* them is assigned to any field.
C1_FirstMatchWins ==
    (MapperRan /\ ~columnMapping.isNull) =>
        \A f \in Fields(impl) :
            Cardinality(ColumnsOf(f)) >= 2 =>
                /\ columnMapping.mapping[f] = Least(ColumnsOf(f)) - 1
                /\ \A c \in ColumnsOf(f) \ {Least(ColumnsOf(f))} :
                       \A g \in Fields(impl) : columnMapping.mapping[g] # c - 1

\* C2: a header row that holds a recognised synonym for each of description,
\* given, when and then, in any order and letter case, is mapped with none of
\* the four absent.
C2_SynonymsMapped ==
    (MapperRan /\ \A f \in requiredFields : ColumnsOf(f) # {}) =>
        /\ ~columnMapping.isNull
        /\ \A f \in requiredFields : columnMapping.mapping[f] # Absent

\* a column recognised for the field and for no other field
OnlyFor(field) ==
    {c \in ColumnsOf(field) :
        \A g \in Fields(impl) \ {field} : ~Recognises(g, headerRow[c])}

\* C3: a header row in which some required field is matched by no column is
\* rejected (the mapper returns null and the batch ends without records); a
\* header row in which every required field has a column of its own is
\* accepted whatever optional fields are missing.
C3_MissingRequiredRejected ==
    MapperRan =>
        /\ (\E f \in requiredFields : ColumnsOf(f) = {}) =>
               /\ columnMapping.isNull
               /\ pc = "done"
               /\ result.data = <<>>
        /\ (\A f \in requiredFields : OnlyFor(f) # {}) =>
               /\ ~columnMapping.isNull
               /\ \A f \in requiredFields : columnMapping.mapping[f] # Absent

\* C3 witness: a header row with a description column and no then column
\* has been rejected.
C3_Witness ==
    /\ MapperRan
    /\ ColumnsOf("description") # {}
    /\ ColumnsOf("then") = {}
    /\ columnMapping.isNull
    /\ pc = "done"

\* the grid is one of the two batch-fatal cases
BatchFatal ==
    /\ readable
    /\ \/ Len(jsonData) < 2
       \/ pc # "start" /\ columnMapping.isNull

\* C4: when the grid has fewer than two rows or the header row is rejected,
\* no data row is normalized and the report has zero records, exactly one
\* error, validRows = 0 and success = false.
C4_BatchFatal ==
    BatchFatal =>
        /\ pc # "rows"
        /\ normalized = <<>>
        /\ stories = <<>>
        /\ pc = "done" =>
               /\ result.data = <<>>
               /\ Len(result.errors) = 1
               /\ result.validRows = 0
               /\ result.success = FALSE

\* C4 witness: a grid with a rejected header row and a filled data row has
\* been reported.
C4_Witness ==
    /\ pc = "done"
    /\ readable
    /\ Len(jsonData) >= 2
    /\ columnMapping.isNull
    /\ \E c \in 1..Len(jsonData[2]) : jsonData[2][c] = Str("x")
    /\ Len(result.errors) = 1

\* the raw cell of a required field is empty, whitespace-only, or missing
\* because the row ends before the field's column
RequiredCellBlank(row, field) ==
    LET index == columnMapping.mapping[field]
    IN \/ index >= Len(row)
       \/ row[index + 1].kind = "string" /\ row[index + 1].text = ""

BlankRow(row) == \A f \in requiredFields : RequiredCellBlank(row, f)

\* the loop takes the step that normalizes the data row at rowIndex
RowStep == pc = "rows" /\ rowIndex' = rowIndex + 1

\* the header was mapped: the report is not one of the batch-fatal ones
Mapped == readable /\ pc # "start" /\ ~BatchFatal

\* C5: normalizing a data row whose four required cells are all empty,
\* whitespace-only or missing adds neither a record nor an error, whatever
\* its optional cells hold, and the row is counted in totalRows.
C5_BlankRowSkipped ==
    /\ [][(RowStep /\ BlankRow(dataRows[rowIndex + 1])) =>
             (stories' = stories /\ errors' = errors)]_vars
    /\ []((Mapped /\ pc = "done") => result.totalRows = Len(jsonData) - 1)

\* C5 witness: a row with blank required cells and filled optional cells has
\* been normalized and reported: no record, no error, totalRows = 1.
C5_Witness ==
    /\ Mapped
    /\ pc = "done"
    /\ Len(dataRows) = 1
    /\ BlankRow(dataRows[1])
    /\ \E c \in 1..Len(dataRows[1]) : dataRows[1][c] = Str("n")
    /\ result.data = <<>>
    /\ result.errors = <<>>
    /\ result.totalRows = 1

\* the value the normalizer extracts for the required field is empty
FieldEmpty(row, field) == Extract(impl, row, columnMapping.mapping, field) = ""

\* the first required field, in the order description, given, when, then,
\* that is empty in the row
FirstEmptyField(row) ==
    requiredOrder[Least({k \in 1..4 : FieldEmpty(row, requiredOrder[k])})]

\* the messages that name a required field as missing
Wordings(field) ==
    CASE field = "description" -> {"Description is required"}
      [] field = "given" ->
           {"Given condition is required", "Given clause is required"}
      [] field = "when" -> {"When action is required", "When clause is required"}
      [] OTHER -> {"Then result is required", "Then clause is required"}

\* C6: normalizing the data row at 0-based index i, when it is not blank and
\* has an empty required field, adds no record and exactly one error,
\* 'Row <i+2>: <message>', whose message names the first empty field in the
\* order description, given, when, then.
C6_MissingFieldError ==
    [][(/\ RowStep
        /\ \E f \in requiredFields : FieldEmpty(dataRows[rowIndex + 1], f)
        /\ \E f \in requiredFields : ~FieldEmpty(dataRows[rowIndex + 1], f))
       => /\ stories' = stories
          /\ \E w \in Wordings(FirstEmptyField(dataRows[rowIndex + 1])) :
                errors' = Append(errors,
                                 "Row " \o ToString(rowIndex + 2) \o ": " \o w)]_vars

\* C6 witness: a complete row followed by a row that lacks only its When
\* cell has given one record and the one error 'Row 3: When action is
\* required'.
C6_Witness ==
    /\ pc = "done"
    /\ Len(dataRows) = 2
    /\ Len(result.data) = 1
    /\ result.errors = <<"Row 3: When action is required">>

\* outcome of the data row at 1-based position k, computed from that row alone
RowOutcome(k) == parseRow(impl, dataRows[k], columnMapping.mapping, k + 1)

RECURSIVE StoriesUpTo(_)
\* the records of the first n data rows, in row order
StoriesUpTo(n) ==
    IF n = 0 THEN <<>>
    ELSE IF RowOutcome(n).kind = "story"
    THEN Append(StoriesUpTo(n - 1), RowOutcome(n).story)
    ELSE StoriesUpTo(n - 1)

RECURSIVE ErrorsUpTo(_)
\* the error messages of the first n data rows, in row order
ErrorsUpTo(n) ==
    IF n = 0 THEN <<>>
    ELSE IF RowOutcome(n).kind = "error"
    THEN Append(ErrorsUpTo(n - 1),
                "Row " \o ToString(n + 1) \o ": " \o RowOutcome(n).message)
    ELSE ErrorsUpTo(n - 1)

\* C7: once the header is mapped every data row is normalized exactly once,
\* in row order; an error on one row neither ends the loop nor changes what
\* another row yields; the report's records and errors are the per-row
\* outcomes in ascending row order.
C7_RowIsolation ==
    Mapped =>
        /\ normalized = [k \in 1..rowIndex |-> k - 1]
        /\ stories = StoriesUpTo(rowIndex)
        /\ errors = ErrorsUpTo(rowIndex)
        /\ pc = "done" =>
               /\ rowIndex = Len(dataRows)
               /\ result.data = stories
               /\ result.errors = errors

\* C7 witness: a failing row followed by a complete row has been reported
\* with one error and one record.
C7_Witness ==
    /\ Mapped
    /\ pc = "done"
    /\ Len(dataRows) = 2
    /\ RowOutcome(1).kind = "error"
    /\ RowOutcome(2).kind = "story"
    /\ Len(result.errors) = 1
    /\ Len(result.data) = 1

\* the data rows the normalizer skips as blank
SkippedRows ==
    {k \in 1..Len(dataRows) : \A f \in requiredFields : FieldEmpty(dataRows[k], f)}

\* C8: in every report validRows is the number of records, and when the
\* header was mapped totalRows = validRows + errors + blank rows.
C8_RowAccounting ==
    pc = "done" =>
        /\ result.validRows = Len(result.data)
        /\ Mapped =>
               result.totalRows =
                   result.validRows + Len(result.errors) + Cardinality(SkippedRows)

\* C8 witness: a report over a record and a blank row.
C8_Witness ==
    /\ Mapped
    /\ pc = "done"
    /\ result.validRows = 1
    /\ Cardinality(SkippedRows) = 1
    /\ result.totalRows = 2

\* C9: in every report success is true exactly when the error sequence is
\* empty.
C9_SuccessIffNoErrors ==
    pc = "done" => (result.success <=> Len(result.errors) = 0)

\* C10: in every report, the batch-fatal ones included, totalRows is the
\* number of rows of the grid without the header row.
C10_TotalRowsIsDataRows ==
    (pc = "done" /\ readable) => result.totalRows = Len(dataRows)

-----------------------------------------------------------------------------
(* Record grids: sheets with an identifier column and the optional columns, *)
(* run through the same batch parser.                                       *)

\* a header with the identifier, the required and the optional columns
RecordHeader ==
    <<Str("id"), Str("description"), Str("given"), Str("when"), Str("then"),
      Str("role"), Str("goal"), Str("benefit"), Str("notes"), Str("tags"),
      Str("priority")>>

\* a complete data row with the given identifier and optional cells
RecordRow(id, role, goal, tagsCell, priorityCell) ==
    <<id, Str("Login works"), Str("Given A"), Str("When B"), Str("Then C"),
      role, goal, Str(""), Str(""), tagsCell, priorityCell>>

\* identifier cells: none, text, padded text, whitespace, the synthesized
\* form of the next row, and the number 0
IdCells ==
    {Str(""), Str("US-7"), Padded("US-7"), Padded(""), Str("US-003"), Num("0")}

RecordRows ==
    {RecordRow(id, Str(""), Str(""), Str(""), Str("")) : id \in IdCells}
      \cup {RecordRow(id, Str("Agent"), Str("x"), Str("smoke, login"), Str("High")) :
              id \in IdCells}
      \cup {<<Str(""), Str("Login works"), Str("Given A"), Str("When B"),
              Str("Then C")>>}

RecordRowSeqs == UNION {[1..n -> RecordRows] : n \in 0..MaxRows}

\* the record sheets, a sheet without rows, a sheet whose header lacks
\* required columns and a sheet without an identifier column
RecordGrids ==
    {<<>>, <<<<Str("id"), Str("description")>>, SampleRow(2)>>}
      \cup {<<RecordHeader>> \o rows : rows \in RecordRowSeqs}
      \cup {<<<<Str("Description"), Str("Given"), Str("When"), Str("Then")>>,
              <<Str("Login works"), Str("Given A"), Str("When B"), Str("Then C")>>,
              <<Str("Login works"), Str("Given A"), Str("When B"), Str("Then C")>>>>}

RecordInit ==
    /\ impl \in Impls
    /\ \/ readable = TRUE /\ jsonData \in RecordGrids
       \/ readable = FALSE /\ jsonData = <<>>
    /\ pc = "start"
    /\ columnMapping = [isNull |-> TRUE, mapping |-> EmptyMapping(impl)]
    /\ rowIndex = 0
    /\ stories = <<>>
    /\ errors = <<>>
    /\ normalized = <<>>
    /\ result = NoResult
    /\ OthersIdle

RecordSpec == RecordInit /\ [][Next]_vars

\* the raw cell of the identifier column holds something: text other than
\* whitespace, a number or a boolean
IdCellNonEmpty(row) ==
    LET index == columnMapping.mapping["id"]
    IN /\ index # Absent
       /\ index < Len(row)
       /\ row[index + 1].text # ""

\* the identifier the record of the data row at 1-based position k must have
ExpectedId(k) ==
    IF IdCellNonEmpty(dataRows[k])
    THEN dataRows[k][columnMapping.mapping["id"] + 1].text
    ELSE "US-" \o (IF k + 1 < 10 THEN "00" ELSE IF k + 1 < 100 THEN "0" ELSE "")
               \o ToString(k + 1)

\* C11: the record built from the data row at 0-based index i has the
\* trimmed identifier cell as its identifier when that cell is non-empty,
\* and 'US-' followed by i+2 padded to three digits otherwise.
C11_IdentifierSynthesis ==
    (Mapped /\ rowIndex > 0 /\ RowOutcome(rowIndex).kind = "story") =>
        stories[Len(stories)].id = ExpectedId(rowIndex)

\* C12: no two records of a report have the same identifier.
C12_UniqueIdentifiers ==
    pc = "done" =>
        \A a, b \in 1..Len(result.data) :
            a # b => result.data[a].id # result.data[b].id

\* the text of an optional field the normalizer extracts from the record's row
Extracted(k, field) == Extract(impl, dataRows[k], columnMapping.mapping, field)

\* C13: every record has actorRole = extracted or 'User', desiredAction =
\* extracted or the description, benefit = extracted or 'I can achieve my
\* goal', the other optional texts = extracted, tags empty and priority
\* 'medium', whatever the tags and priority columns hold.
C13_DefaultPolicy ==
    (Mapped /\ rowIndex > 0 /\ RowOutcome(rowIndex).kind = "story") =>
        LET built == stories[Len(stories)]
            v(f) == Extracted(rowIndex, f)
        IN /\ built.asA = (IF v("asA") # "" THEN v("asA") ELSE "User")
           /\ built.iWant = (IF v("iWant") # "" THEN v("iWant") ELSE built.description)
           /\ built.soThat =
                (IF v("soThat") # "" THEN v("soThat") ELSE "I can achieve my goal")
           /\ built.acceptanceCriteria = v("acceptanceCriteria")
           /\ built.requirements = v("requirements")
           /\ built.notes = v("notes")
           /\ built.acId = v("acId")
           /\ built.tags = <<>>
           /\ built.priority = "medium"

-----------------------------------------------------------------------------
(* Record Validator: validateUserStory (backend, behind POST /validate),   *)
(* validateGherkinStory (copy).  A field of the record handed in is        *)
(* undefined or a string, kept as its sequence of characters, so that      *)
(* trim, toLowerCase and startsWith are computed and not looked up.        *)

Undefined == [defined |-> FALSE, chars |-> <<>>]
Text(chars) == [defined |-> TRUE, chars |-> chars]

RECURSIVE TrimStart(_)
TrimStart(chars) ==
    IF chars # <<>> /\ Head(chars) = " " THEN TrimStart(Tail(chars)) ELSE chars

RECURSIVE TrimEnd(_)
TrimEnd(chars) ==
    IF chars # <<>> /\ chars[Len(chars)] = " "
    THEN TrimEnd(SubSeq(chars, 1, Len(chars) - 1)) ELSE chars

\* String.prototype.trim on a sequence of characters
TrimChars(chars) == TrimEnd(TrimStart(chars))

UpperLetters ==
    <<"A", "B", "C", "D", "E", "F", "G", "H", "I", "J", "K", "L", "M", "N",
      "O", "P", "Q", "R", "S", "T", "U", "V", "W", "X", "Y", "Z">>

LowerLetters ==
    <<"a", "b", "c", "d", "e", "f", "g", "h", "i", "j", "k", "l", "m", "n",
      "o", "p", "q", "r", "s", "t", "u", "v", "w", "x", "y", "z">>

LowerChar(c) ==
    IF \E i \in DOMAIN UpperLetters : UpperLetters[i] = c
    THEN LowerLetters[CHOOSE i \in DOMAIN UpperLetters : UpperLetters[i] = c]
    ELSE c

\* String.prototype.toLowerCase on a sequence of characters
LowerChars(chars) == [i \in 1..Len(chars) |-> LowerChar(chars[i])]

\* String.prototype.startsWith
StartsWith(chars, prefix) ==
    /\ Len(chars) >= Len(prefix)
    /\ SubSeq(chars, 1, Len(prefix)) = prefix

\* `!value` of a string or undefined
Falsy(value) == ~value.defined \/ value.chars = <<>>

\* `!value?.trim()`
BlankOrMissing(value) == ~value.defined \/ TrimChars(value.chars) = <<>>

\* `value && !value.toLowerCase().startsWith(keyword)`
OffConvention(value, keyword) ==
    /\ ~Falsy(value)
    /\ ~StartsWith(LowerChars(value.chars), keyword)

GivenWord == <<"g", "i", "v", "e", "n">>
WhenWord == <<"w", "h", "e", "n">>
ThenWord == <<"t", "h", "e", "n">>

\* errors.push(message) when the condition holds
PushIf(condition, message) == IF condition THEN <<message>> ELSE <<>>

\* backend: ExcelParser.validateUserStory
validateUserStory(s) ==
    LET errs ==
          PushIf(BlankOrMissing(s.description), "Description is required")
          \o PushIf(BlankOrMissing(s.given), "Given condition is required")
          \o PushIf(BlankOrMissing(s.when), "When action is required")
          \o PushIf(BlankOrMissing(s.then), "Then result is required")
          \o PushIf(OffConvention(s.given, GivenWord),
                    "Given condition should start with \"Given\"")
          \o PushIf(OffConvention(s.when, WhenWord),
                    "When action should start with \"When\"")
          \o PushIf(OffConvention(s.then, ThenWord),
                    "Then result should start with \"Then\"")
    IN [called |-> TRUE, status |-> 200, hasValid |-> TRUE,
        valid |-> (Len(errs) = 0), errors |-> errs]

\* copy: ExcelParser.validateGherkinStory, which returns the errors alone
validateGherkinStory(s) ==
    LET errs ==
          PushIf(Falsy(s.description), "Description is required")
          \o PushIf(Falsy(s.given), "Given clause is required")
          \o PushIf(Falsy(s.when), "When clause is required")
          \o PushIf(Falsy(s.then), "Then clause is required")
          \o PushIf(OffConvention(s.given, GivenWord),
                    "Given clause should start with \"Given\"")
          \o PushIf(OffConvention(s.when, WhenWord),
                    "When clause should start with \"When\"")
          \o PushIf(OffConvention(s.then, ThenWord),
                    "Then clause should start with \"Then\"")
    IN [called |-> TRUE, status |-> 200, hasValid |-> FALSE,
        valid |-> FALSE, errors |-> errs]

\* the records handed to the validator: each field undefined, empty,
\* whitespace-only, on the convention in some letter case, or off it
DescriptionValues == {Undefined, Text(<<>>), Text(<<" ">>), Text(<<"x">>)}

GivenValues ==
    {Undefined, Text(<<>>), Text(<<" ", " ">>),
     Text(<<"G", "i", "v", "e", "n", " ", "A">>),
     Text(<<"G", "I", "V", "E", "N", " ", "a">>),
     Text(<<" ", "G", "i", "v", "e", "n", " ", "x">>),
     Text(<<"G", "i", "v">>),
     Text(<<"x">>)}

WhenValues ==
    {Undefined, Text(<<>>), Text(<<" ">>),
     Text(<<"W", "h", "e", "n", " ", "B">>),
     Text(<<"w", "h", "e", "n">>),
     Text(<<"T", "h", "e", "n", " ", "C">>)}

ThenValues ==
    {Undefined, Text(<<>>), Text(<<" ">>),
     Text(<<"T", "h", "e", "n", " ", "C">>),
     Text(<<"t", "H", "E", "N">>),
     Text(<<"x">>)}

ValidatorRecords ==
    {[present |-> TRUE, description |-> d, given |-> g, when |-> w, then |-> t] :
        d \in DescriptionValues, g \in GivenValues, w \in WhenValues,
        t \in ThenValues}

\* the parser is not running
ParserIdle ==
    /\ readable = FALSE
    /\ jsonData = <<>>
    /\ pc = "idle"
    /\ columnMapping = [isNull |-> TRUE, mapping |-> EmptyMapping(impl)]
    /\ rowIndex = 0
    /\ stories = <<>>
    /\ errors = <<>>
    /\ normalized = <<>>
    /\ result = NoResult

\* a record is about to be validated; the body of a POST /validate request
\* may also lack the record
ValidatorInit ==
    /\ impl \in Impls
    /\ ParserIdle
    /\ story \in ValidatorRecords \cup
                   (IF impl = "backend" THEN {[present |-> FALSE]} ELSE {})
    /\ passed = story
    /\ validation = [called |-> FALSE]
    /\ SessionIdle
    /\ MockIdle
    /\ RegistryIdle
    /\ AdapterIdle

\* POST /validate without a record: 400, the validator is not called
ValidateMissing ==
    /\ validation = [called |-> FALSE]
    /\ ~story.present
    /\ validation' = [called |-> FALSE, status |-> 400, hasValid |-> FALSE,
                      valid |-> FALSE, errors |-> <<"User story is required">>]
    /\ UNCHANGED <<story, passed>>
    /\ UNCHANGED exceptValidator

\* the validator is called on the record and returns
Validate ==
    /\ validation = [called |-> FALSE]
    /\ story.present
    /\ validation' = IF impl = "backend" THEN validateUserStory(story)
                     ELSE validateGherkinStory(story)
    /\ UNCHANGED <<story, passed>>
    /\ UNCHANGED exceptValidator

ValidatorNext ==
    \/ ValidateMissing
    \/ Validate

ValidatorSpec == ValidatorInit /\ [][ValidatorNext]_vars

\* the field is undefined, empty or made of whitespace only
FieldBlank(value) ==
    ~value.defined \/ \A i \in 1..Len(value.chars) : value.chars[i] = " "

\* the field holds a string that does not begin with the keyword, letter
\* case aside
FieldOffKeyword(value, keyword) ==
    /\ value.defined
    /\ value.chars # <<>>
    /\ ~(/\ Len(value.chars) >= Len(keyword)
         /\ \A i \in 1..Len(keyword) : LowerChar(value.chars[i]) = keyword[i])

\* the messages that report a field as off the lexical convention
LexicalWordings(field) ==
    CASE field = "given" ->
           {"Given condition should start with \"Given\"",
            "Given clause should start with \"Given\""}
      [] field = "when" ->
           {"When action should start with \"When\"",
            "When clause should start with \"When\""}
      [] OTHER ->
           {"Then result should start with \"Then\"",
            "Then clause should start with \"Then\""}

KeywordOf(field) ==
    CASE field = "given" -> GivenWord
      [] field = "when" -> WhenWord
      [] OTHER -> ThenWord

\* how many of the reported errors are among the messages
Reported(messages) ==
    Cardinality({i \in 1..Len(validation.errors) : validation.errors[i] \in messages})

\* C14: the validator reports one 'is required' error for each of
\* description, given, when, then that is empty or whitespace-only, one
\* lexical error for each of given, when, then that is present and does not
\* start with its keyword in any letter case, and nothing else; the valid
\* flag it returns is true exactly when it reports no error; the record is
\* left as it was passed.
C14_RecordValidator ==
    validation.called =>
        /\ \A f \in requiredFields :
              Reported(Wordings(f)) = (IF FieldBlank(passed[f]) THEN 1 ELSE 0)
        /\ \A f \in {"given", "when", "then"} :
              Reported(LexicalWordings(f)) =
                  (IF FieldOffKeyword(passed[f], KeywordOf(f)) THEN 1 ELSE 0)
        /\ \A i \in 1..Len(validation.errors) :
              \E f \in requiredFields :
                  validation.errors[i] \in Wordings(f) \cup LexicalWordings(f)
        /\ validation.hasValid => (validation.valid <=> validation.errors = <<>>)
        /\ story = passed

-----------------------------------------------------------------------------
(* Several parse invocations on one parser object: the excelParser          *)
(* singleton of the backend, one ExcelParser of the copy with its           *)
(* workbook / worksheet fields.  parseExcelFile and parseGherkinFile are    *)
(* async functions without an await: the body of an invocation runs from    *)
(* its first statement to its return before another one starts.            *)

\* most invocations started on one parser object
MaxCalls == 2

RECURSIVE parseDataRows(_, _, _, _)
\* the stories and errors of the first n data rows of the grid
parseDataRows(i, grid, mapping, n) ==
    IF n = 0 THEN [stories |-> <<>>, errors |-> <<>>]
    ELSE LET before == parseDataRows(i, grid, mapping, n - 1)
             rowNumber == RowNumber(i, n - 1)
             out == parseRow(i, grid[n + 1], mapping, rowNumber)
         IN [stories |-> IF out.kind = "story"
                         THEN Append(before.stories, out.story)
                         ELSE before.stories,
             errors |-> IF out.kind = "error"
                        THEN Append(before.errors, RowError(rowNumber, out.message))
                        ELSE before.errors]

\* the report of the steps that follow the decoding of the sheet into grid
parseWorksheet(i, grid) ==
    IF Len(grid) < 2
    THEN [success |-> FALSE, data |-> <<>>, errors |-> <<TooFewRowsMessage(i)>>,
          totalRows |-> Len(grid), validRows |-> 0]
    ELSE LET detected == detectColumnMapping(i, grid[1])
         IN IF detected.isNull
            THEN [success |-> FALSE, data |-> <<>>,
                  errors |-> <<RejectedMessage(i)>>,
                  totalRows |-> Len(grid), validRows |-> 0]
            ELSE LET rows == parseDataRows(i, grid, detected.mapping, Len(grid) - 1)
                 IN [success |-> Success(i, rows.stories, rows.errors),
                     data |-> rows.stories,
                     errors |-> rows.errors,
                     totalRows |-> Len(grid) - 1,
                     validRows |-> Len(rows.stories)]

\* the report of one invocation that runs alone on a file
parseExcelFile(i, file) ==
    IF file.readable THEN parseWorksheet(i, file.grid) ELSE CatchResult

CanonicalHeader == <<Str("Description"), Str("Given"), Str("When"), Str("Then")>>

CompleteRow ==
    <<Str("Login works"), Str("Given A"), Str("When B"), Str("Then C")>>

\* the files handed to the invocations: an undecodable one, and sheets with
\* one record, an error and a record, a rejected header, no data row, a
\* blank row
SessionFiles ==
    {[readable |-> FALSE, grid |-> <<>>]}
      \cup {[readable |-> TRUE, grid |-> g] :
              g \in {<<CanonicalHeader, CompleteRow>>,
                     <<CanonicalHeader,
                       <<Str("x"), Str(""), Str("x"), Str("x")>>, CompleteRow>>,
                     <<<<Str("id"), Str("description")>>, SampleRow(2)>>,
                     <<CanonicalHeader>>,
                     <<CanonicalHeader,
                       <<Str(""), Str(""), Str(""), Str("")>>>>}}

Calls == 1..MaxCalls

\* an invocation before its first statement
NewCall(file) ==
    [file |-> file, pc |-> "pending", sheet |-> <<>>, report |-> NoResult]

SessionInit ==
    /\ impl \in Impls
    /\ ParserIdle
    /\ ValidatorIdle
    /\ worksheet = [loaded |-> FALSE]
    /\ calls \in [Calls -> {NewCall(f) : f \in SessionFiles}]
    /\ MockIdle
    /\ RegistryIdle
    /\ AdapterIdle

\* mutant of Scheduled: the body awaits between the decoding and the parse
\* of the sheet, so another invocation may start in between
ScheduledAnyTime(k) == TRUE

\* invocation k may start: no other invocation is inside its body
Scheduled(k) == \A j \in Calls \ {k} : calls[j].pc # "loaded"

\* XLSX.read and the choice of the first sheet: the backend keeps the sheet
\* in a local constant, the copy in this.worksheet
ReadSheet ==
    \E k \in Calls :
        /\ calls[k].pc = "pending"
        /\ Scheduled(k)
        /\ calls[k].file.readable
        /\ IF impl = "backend"
           THEN /\ calls' = [calls EXCEPT ![k].pc = "loaded",
                                          ![k].sheet = calls[k].file.grid]
                /\ UNCHANGED worksheet
           ELSE /\ calls' = [calls EXCEPT ![k].pc = "loaded"]
                /\ worksheet' = [loaded |-> TRUE, grid |-> calls[k].file.grid]
        /\ UNCHANGED exceptSession

\* XLSX.read throws: the catch block returns its report
ReadThrows ==
    \E k \in Calls :
        /\ calls[k].pc = "pending"
        /\ Scheduled(k)
        /\ ~calls[k].file.readable
        /\ calls' = [calls EXCEPT ![k].pc = "settled", ![k].report = CatchResult]
        /\ UNCHANGED worksheet
        /\ UNCHANGED exceptSession

\* sheet_to_json and the rest of the body, on the local sheet (backend) or
\* on this.worksheet (copy); the invocation returns its report
ParseLoaded ==
    \E k \in Calls :
        /\ calls[k].pc = "loaded"
        /\ calls' = [calls EXCEPT
                       ![k].pc = "settled",
                       ![k].report =
                           parseWorksheet(impl, IF impl = "backend"
                                                THEN calls[k].sheet
                                                ELSE worksheet.grid)]
        /\ UNCHANGED worksheet
        /\ UNCHANGED exceptSession

SessionNext ==
    \/ ReadSheet
    \/ ReadThrows
    \/ ParseLoaded

SessionSpec == SessionInit /\ [][SessionNext]_vars

\* C15: every invocation on a shared parser object returns the report it
\* would return when run alone on its file, whatever the other invocations
\* and their order; two invocations on the same file return the same report.
C15_SelfContained ==
    \A k \in DOMAIN calls :
        calls[k].pc = "settled" =>
            /\ calls[k].report = parseExcelFile(impl, calls[k].file)
            /\ \A j \in DOMAIN calls :
                  (calls[j].pc = "settled" /\ calls[j].file = calls[k].file) =>
                      calls[j].report = calls[k].report

\* C15 witness: on the copy's parser object two invocations on different
\* sheets have both returned, with different reports, one with a record.
C15_Witness ==
    /\ impl = "copy"
    /\ \A k \in DOMAIN calls : calls[k].pc = "settled"
    /\ \E j, k \in DOMAIN calls :
          /\ calls[j].file.readable
          /\ calls[k].file.readable
          /\ calls[j].report # calls[k].report
          /\ Len(calls[j].report.data) = 1
          /\ Len(calls[k].report.errors) = 1

-----------------------------------------------------------------------------
(* Deterministic provider: MockAIProvider.generateTestCases.  An artifact   *)
(* is kept with its id, module, userType, priority, sourceStoryId, the tags  *)
(* that name its kind and its steps; its other texts (title, description,   *)
(* preconditions) play no part in what follows.  The stories of a context   *)
(* are records with string fields, so the string operations of the three    *)
(* create functions do not throw.                                           *)

\* most stories of a context
MaxStories == 2
\* most selected modules of a context
MaxModules == 2
\* largest reading of the clock after the call began at 0
MaxClock == 1

\* const testId = `TC_${story.id}_${module}_<KIND>_${Date.now()}`
TestId(userStory, module, kind, now) ==
    "TC_" \o userStory.id \o "_" \o module \o "_" \o kind \o "_" \o ToString(now)

\* steps: [{stepNumber: 1, ...}, ..., {stepNumber: 4, ...}], the same four
\* step numbers in the three create functions; the texts of a step are left
\* out
FourSteps ==
    <<[stepNumber |-> 1], [stepNumber |-> 2], [stepNumber |-> 3],
      [stepNumber |-> 4]>>

createPositiveTestCase(userStory, module, ctx, now) ==
    [id |-> TestId(userStory, module, "POS", now),
     module |-> module,
     userType |-> ctx.userType,
     priority |-> OrElse(userStory.priority, "medium"),
     tags |-> <<"positive", "functional", module>>,
     steps |-> FourSteps,
     sourceStoryId |-> userStory.id]

createNegativeTestCase(userStory, module, ctx, now) ==
    [id |-> TestId(userStory, module, "NEG", now),
     module |-> module,
     userType |-> ctx.userType,
     priority |-> OrElse(userStory.priority, "medium"),
     tags |-> <<"negative", "error-handling", module>>,
     steps |-> FourSteps,
     sourceStoryId |-> userStory.id]

\* mutant of createEdgeCaseTest: the edge artifact takes the story's priority
createEdgeCaseTestStoryPriority(userStory, module, ctx, now) ==
    [id |-> TestId(userStory, module, "EDGE", now),
     module |-> module,
     userType |-> ctx.userType,
     priority |-> OrElse(userStory.priority, "medium"),
     tags |-> <<"edge-case", "boundary", module>>,
     steps |-> FourSteps,
     sourceStoryId |-> userStory.id]

createEdgeCaseTest(userStory, module, ctx, now) ==
    [id |-> TestId(userStory, module, "EDGE", now),
     module |-> module,
     userType |-> ctx.userType,
     priority |-> "low",
     tags |-> <<"edge-case", "boundary", module>>,
     steps |-> FourSteps,
     sourceStoryId |-> userStory.id]

\* mutant of Tally: the count of the key starts again at 1
TallyFresh(acc, key) ==
    [k \in DOMAIN acc \cup {key} |-> IF k = key THEN 1 ELSE acc[k]]

\* acc[key] = (acc[key] || 0) + 1
Tally(acc, key) ==
    [k \in DOMAIN acc \cup {key} |->
        IF k = key THEN (IF key \in DOMAIN acc THEN acc[key] ELSE 0) + 1
        ELSE acc[k]]

\* testCases.reduce((acc, test) => ..., {}) over the first n artifacts, the
\* key of an artifact being its module or its priority
RECURSIVE Reduce(_, _, _)
Reduce(cases, property, n) ==
    IF n = 0 THEN <<>>
    ELSE Tally(Reduce(cases, property, n - 1), cases[n][property])

countByModule(cases) == Reduce(cases, "module", Len(cases))

countByPriority(cases) == Reduce(cases, "priority", Len(cases))

\* the (story, module) pairs in the order of the two nested loops
PairCount(ctx) == Len(ctx.userStories) * Len(ctx.selectedModules)
StoryOf(ctx, pair) ==
    ctx.userStories[((pair - 1) \div Len(ctx.selectedModules)) + 1]
ModuleOf(ctx, pair) ==
    ctx.selectedModules[((pair - 1) % Len(ctx.selectedModules)) + 1]

\* mutant of IncludeNegative: the negative test is created whatever the flag
IncludeNegativeAlways(ctx) == TRUE

\* if (context.includeNegativeTests)
IncludeNegative(ctx) == ctx.includeNegativeTests

\* stories with an underscore in the id and without one, with a priority and
\* without one (priority is optional in GherkinUserStory; '' stands for none)
MockStories ==
    {[id |-> "A_B", priority |-> "high", given |-> Text(<<"G">>)],
     [id |-> "A", priority |-> "", given |-> Text(<<"G">>)]}

\* story.given.replace(...) throws a TypeError on a story without given
Throws(userStory) == ~userStory.given.defined

\* module names with and without an underscore
MockModules == {"C", "B_C"}

\* the advisory settings of a context, varied together
MockSettings ==
    {[includePerformanceTests |-> FALSE, includeSecurityTests |-> FALSE,
      testingScope |-> "full"],
     [includePerformanceTests |-> TRUE, includeSecurityTests |-> TRUE,
      testingScope |-> "smoke"]}

MockContexts ==
    {[userStories |-> us, selectedModules |-> ms, userType |-> "AIRLINE_USER",
      testingScope |-> o.testingScope,
      includeNegativeTests |-> neg,
      includePerformanceTests |-> o.includePerformanceTests,
      includeSecurityTests |-> o.includeSecurityTests] :
        us \in UNION {[1..n -> MockStories] : n \in 0..MaxStories},
        ms \in UNION {[1..n -> MockModules] : n \in 0..MaxModules},
        neg \in BOOLEAN, o \in MockSettings}

\* generateTestCases entered: startTime = Date.now(), testCases = []
MockInit ==
    /\ impl = "copy"
    /\ ParserIdle
    /\ ValidatorIdle
    /\ SessionIdle
    /\ context \in MockContexts
    /\ clock = 0
    /\ testCases = <<>>
    /\ position = [pair |-> 1, phase |-> "positive"]
    /\ generation = [returned |-> FALSE]
    /\ RegistryIdle
    /\ AdapterIdle

\* Date.now() returns the last reading or a later one
Now(now) == now \in {clock, clock + 1} /\ now <= MaxClock

\* testCases.push(this.createPositiveTestCase(story, module, context))
CreatePositive ==
    /\ position.phase = "positive"
    /\ position.pair <= PairCount(context)
    /\ ~Throws(StoryOf(context, position.pair))
    /\ \E now \in 0..MaxClock :
          /\ Now(now)
          /\ clock' = now
          /\ testCases' =
               Append(testCases,
                      createPositiveTestCase(StoryOf(context, position.pair),
                                             ModuleOf(context, position.pair),
                                             context, now))
    /\ position' = [position EXCEPT !.phase = IF IncludeNegative(context)
                                              THEN "negative" ELSE "edge"]
    /\ UNCHANGED <<context, generation>>
    /\ UNCHANGED exceptMock

\* testCases.push(this.createNegativeTestCase(story, module, context))
CreateNegative ==
    /\ position.phase = "negative"
    /\ \E now \in 0..MaxClock :
          /\ Now(now)
          /\ clock' = now
          /\ testCases' =
               Append(testCases,
                      createNegativeTestCase(StoryOf(context, position.pair),
                                             ModuleOf(context, position.pair),
                                             context, now))
    /\ position' = [position EXCEPT !.phase = "edge"]
    /\ UNCHANGED <<context, generation>>
    /\ UNCHANGED exceptMock

\* testCases.push(this.createEdgeCaseTest(story, module, context)); the
\* loops move on to the next pair
CreateEdge ==
    /\ position.phase = "edge"
    /\ \E now \in 0..MaxClock :
          /\ Now(now)
          /\ clock' = now
          /\ testCases' =
               Append(testCases,
                      createEdgeCaseTest(StoryOf(context, position.pair),
                                         ModuleOf(context, position.pair),
                                         context, now))
    /\ position' = [pair |-> position.pair + 1, phase |-> "positive"]
    /\ UNCHANGED <<context, generation>>
    /\ UNCHANGED exceptMock

\* the loops are over: the summary is computed and the result returned
MockReturn ==
    /\ position.phase = "positive"
    /\ position.pair > PairCount(context)
    /\ \E now \in 0..MaxClock :
          /\ Now(now)
          /\ clock' = now
          /\ generation' =
               [returned |-> TRUE,
                success |-> TRUE,
                testCases |-> testCases,
                summary |-> [totalGenerated |-> Len(testCases),
                             byModule |-> countByModule(testCases),
                             byPriority |-> countByPriority(testCases),
                             generationTime |-> now],
                errors |-> <<>>,
                metadata |-> [provider |-> "Mock AI Provider",
                              model |-> "mock-v1.0",
                              context |-> context]]
    /\ position' = [position EXCEPT !.phase = "returned"]
    /\ UNCHANGED <<context, testCases>>
    /\ UNCHANGED exceptMock

MockNext ==
    \/ CreatePositive
    \/ CreateNegative
    \/ CreateEdge
    \/ MockReturn

MockSpec == MockInit /\ [][MockNext]_vars

\* a story record and an object without given, as a caller of the provider
\* may hand them in
FaultStories ==
    {[id |-> "A_B", priority |-> "high", given |-> Text(<<"G">>)],
     [id |-> "M", priority |-> "", given |-> Undefined]}

FaultContexts ==
    {[userStories |-> us, selectedModules |-> ms, userType |-> "AIRLINE_USER",
      testingScope |-> "full",
      includeNegativeTests |-> neg,
      includePerformanceTests |-> FALSE,
      includeSecurityTests |-> FALSE] :
        us \in UNION {[1..n -> FaultStories] : n \in 0..MaxStories},
        ms \in UNION {[1..n -> MockModules] : n \in 0..MaxModules},
        neg \in BOOLEAN}

\* generateTestCases entered with a context that may hold such an object
MockFaultInit ==
    /\ impl = "copy"
    /\ ParserIdle
    /\ ValidatorIdle
    /\ SessionIdle
    /\ context \in FaultContexts
    /\ clock = 0
    /\ testCases = <<>>
    /\ position = [pair |-> 1, phase |-> "positive"]
    /\ generation = [returned |-> FALSE]
    /\ RegistryIdle
    /\ AdapterIdle

\* createPositiveTestCase throws: the catch block returns the failure result
MockCatch ==
    /\ position.phase = "positive"
    /\ position.pair <= PairCount(context)
    /\ Throws(StoryOf(context, position.pair))
    /\ \E now \in 0..MaxClock :
          /\ Now(now)
          /\ clock' = now
          /\ generation' =
               [returned |-> TRUE,
                success |-> FALSE,
                testCases |-> <<>>,
                summary |-> [totalGenerated |-> 0,
                             byModule |-> <<>>,
                             byPriority |-> <<>>,
                             generationTime |-> now],
                errors |-> <<"Cannot read properties of undefined (reading 'replace')">>,
                metadata |-> [provider |-> "Mock AI Provider",
                              model |-> "mock-v1.0",
                              context |-> context]]
    /\ position' = [position EXCEPT !.phase = "returned"]
    /\ UNCHANGED <<context, testCases>>
    /\ UNCHANGED exceptMock

MockFaultNext ==
    \/ CreatePositive
    \/ CreateNegative
    \/ CreateEdge
    \/ MockReturn
    \/ MockCatch

MockFaultSpec == MockFaultInit /\ [][MockFaultNext]_vars

\* C16: the call returns success = true with s*m*3 artifacts when the
\* negative-tests flag is set and s*m*2 when it is not, whatever the other
\* two flags and the testing scope are.
C16_ArtifactCount ==
    generation.returned =>
        /\ generation.success = TRUE
        /\ Len(generation.testCases) =
             Len(context.userStories) * Len(context.selectedModules)
               * (IF context.includeNegativeTests THEN 3 ELSE 2)

\* C16 witness: one story and two modules have given six artifacts with the
\* negative tests and performance and security tests selected.
C16_Witness ==
    /\ generation.returned
    /\ Len(context.userStories) = 1
    /\ Len(context.selectedModules) = 2
    /\ context.includeNegativeTests
    /\ context.includePerformanceTests
    /\ Len(generation.testCases) = 6

\* C17: the identifiers of the artifacts of one call are pairwise distinct,
\* also when stories share an identifier, a module is selected twice,
\* identifiers and module names hold underscores, or the clock stands still.
C17_DistinctArtifactIds ==
    generation.returned =>
        \A a, b \in 1..Len(generation.testCases) :
            a # b => generation.testCases[a].id # generation.testCases[b].id

\* artifacts per (story, module) pair of the context
PerPair == IF context.includeNegativeTests THEN 3 ELSE 2

\* the kind the claim gives the artifact at place n (counted from 1) of the
\* sequence: positive first, edge last, negative between them
KindAt(n) ==
    LET slot == (n - 1) % PerPair
    IN IF slot = 0 THEN "positive"
       ELSE IF slot = PerPair - 1 THEN "edge-case" ELSE "negative"

\* C26: the artifacts are ordered story-major then module, each pair giving
\* its positive artifact, then its negative one exactly when the
\* negative-tests flag is set, then its edge artifact; every artifact
\* carries its pair's module and its story's identifier, has four steps
\* numbered 1..4, priority 'low' when it is the edge artifact and else the
\* story's priority, or 'medium' when the story has none.
C26_OutputStructure ==
    generation.returned =>
        /\ Len(generation.testCases) = PairCount(context) * PerPair
        /\ \A n \in 1..Len(generation.testCases) :
              LET test == generation.testCases[n]
                  pair == (n - 1) \div PerPair
                  modules == Len(context.selectedModules)
                  userStory == context.userStories[(pair \div modules) + 1]
                  module == context.selectedModules[(pair % modules) + 1]
              IN /\ test.tags[1] = KindAt(n)
                 /\ test.module = module
                 /\ test.sourceStoryId = userStory.id
                 /\ Len(test.steps) = 4
                 /\ \A k \in 1..4 : test.steps[k].stepNumber = k
                 /\ test.priority =
                      (IF KindAt(n) = "edge-case" THEN "low"
                       ELSE IF userStory.priority = "" THEN "medium"
                       ELSE userStory.priority)

\* C26 witness: two different stories, one of them without a priority, and
\* two different modules have given twelve artifacts with the negative tests
\* selected.
C26_Witness ==
    /\ generation.returned
    /\ context.includeNegativeTests
    /\ Len(context.userStories) = 2
    /\ context.userStories[1].priority = "high"
    /\ context.userStories[2].priority = ""
    /\ context.selectedModules = <<"C", "B_C">>
    /\ Len(generation.testCases) = 12
    /\ generation.testCases[2].priority = "high"
    /\ generation.testCases[8].priority = "medium"
    /\ generation.testCases[9].priority = "low"

\* the sum of the counts of a count-by object
RECURSIVE Total(_, _)
Total(counts, keys) ==
    IF keys = {} THEN 0
    ELSE LET key == CHOOSE k \in keys : TRUE
         IN counts[key] + Total(counts, keys \ {key})

\* C30: in every result the deterministic provider returns, totalGenerated
\* is the number of artifacts, the per-module counts have the modules of
\* the artifacts as keys and sum to that number, the per-priority counts sum
\* to it too; a result with success = false has no artifacts, zero counts
\* and at least one error.
C30_SummaryConsistency ==
    generation.returned =>
        LET cases == generation.testCases
            summary == generation.summary
        IN /\ summary.totalGenerated = Len(cases)
           /\ DOMAIN summary.byModule = {cases[n].module : n \in 1..Len(cases)}
           /\ \A m \in DOMAIN summary.byModule : summary.byModule[m] >= 1
           /\ Total(summary.byModule, DOMAIN summary.byModule) = Len(cases)
           /\ Total(summary.byPriority, DOMAIN summary.byPriority) = Len(cases)
           /\ ~generation.success =>
                 /\ Len(cases) = 0
                 /\ summary.totalGenerated = 0
                 /\ DOMAIN summary.byModule = {}
                 /\ DOMAIN summary.byPriority = {}
                 /\ Len(generation.errors) >= 1

\* C30 witness: a result with artifacts of two modules and two priorities,
\* counted per module and per priority.
C30_Witness ==
    /\ generation.returned
    /\ generation.success
    /\ Len(generation.testCases) = 6
    /\ DOMAIN generation.summary.byModule = {"C", "B_C"}
    /\ generation.summary.byModule["C"] = 3
    /\ DOMAIN generation.summary.byPriority = {"high", "low"}
    /\ generation.summary.byPriority["high"] = 4

\* C30 witness of the failure result: artifacts had been pushed when a
\* create function threw, and the result returned has none.
C30_FailureWitness ==
    /\ generation.returned
    /\ ~generation.success
    /\ Len(testCases) >= 2
    /\ generation.testCases = <<>>
    /\ Len(generation.errors) = 1

-----------------------------------------------------------------------------
(* Provider Registry: AIService.  "backend" is the registry that reads the  *)
(* credentials of the environment (initializeProviders), "copy" the one     *)
(* that registers the mock provider and offers registerProvider.            *)

\* this.providers.has(name)
Registered(name) == \E k \in 1..Len(providers) : providers[k] = name

\* this.providers.set(name, provider): a new key goes last
MapSet(keys, name) ==
    IF \E k \in 1..Len(keys) : keys[k] = name THEN keys ELSE Append(keys, name)

\* this.providers.set(name, provider), on the values: the value of a key
\* already there is replaced in place
MapSetValue(keys, values, name, provider) ==
    IF \E k \in 1..Len(keys) : keys[k] = name
    THEN [k \in 1..Len(keys) |-> IF keys[k] = name THEN provider ELSE values[k]]
    ELSE Append(values, provider)

\* a provider object: its class, and whether the registry's constructor
\* made it ("startup") or a caller of registerProvider did ("caller")
Provider(class, madeBy) == [class |-> class, madeBy |-> madeBy]

\* this.providers.get(name), for a name that is a key
InstanceOf(name) == instances[CHOOSE k \in 1..Len(providers) : providers[k] = name]

\* mutant of DefaultAfterGemini: the gemini branch sets the default
\* unconditionally
DefaultAfterGeminiAlways(current) == "gemini"

\* if (this.defaultProvider === 'mock') this.defaultProvider = 'gemini'
DefaultAfterGemini(current) == IF current = "mock" THEN "gemini" ELSE current

\* the providers Map and the default after initializeProviders
initializeProviders(environment) ==
    LET afterOpenai ==
          IF environment.openai
          THEN [keys |-> <<"openai">>,
                values |-> <<Provider("OpenAIProvider", "startup")>>,
                default |-> "openai"]
          ELSE [keys |-> <<>>, values |-> <<>>, default |-> "mock"]
        afterGemini ==
          IF environment.gemini
          THEN [keys |-> MapSet(afterOpenai.keys, "gemini"),
                values |-> MapSetValue(afterOpenai.keys, afterOpenai.values,
                                       "gemini",
                                       Provider("GeminiProvider", "startup")),
                default |-> DefaultAfterGemini(afterOpenai.default)]
          ELSE afterOpenai
    IN [keys |-> MapSet(afterGemini.keys, "mock"),
        values |-> MapSetValue(afterGemini.keys, afterGemini.values, "mock",
                               Provider("MockAIProvider", "startup")),
        default |-> afterGemini.default]

\* mutant of Resolve: a name without a provider falls back to the default
ResolveWithFallback(i, name) ==
    IF Registered(name) THEN name ELSE defaultProvider

\* the key looked up: providerName (backend), providerName ||
\* this.defaultProvider (copy)
Resolve(i, name) ==
    IF i = "backend" THEN name ELSE OrElse(name, defaultProvider)

\* what validateConfiguration of a provider object may return: true for a
\* MockAIProvider, the outcome of a call to the remote service for the others
ValidationOutcomes(provider) ==
    IF provider.class = "MockAIProvider" THEN {TRUE} ELSE {TRUE, FALSE}

\* mutant of Rejects: the result of validateConfiguration is not looked at
RejectsNever(isValid) == FALSE

\* if (!isValid) throw
Rejects(isValid) == ~isValid

\* the provider names a request may carry: registered or not, none
RequestNames == {"mock", "openai", "gemini", "custom", "unknown", ""}

\* the names handed to registerProvider: new ones and one already a key
RegisterNames == {"openai", "custom", "mock"}

\* the provider objects handed to registerProvider
RegisterProviders ==
    {Provider("MockAIProvider", "caller"), Provider("OpenAIProvider", "caller")}

\* one entry of the log of invoked provider methods
Invocation(name, method, event) ==
    [provider |-> name, method |-> method, event |-> event]

\* the object before its constructor runs
RegistryInit ==
    /\ impl \in Impls
    /\ ParserIdle
    /\ ValidatorIdle
    /\ SessionIdle
    /\ MockIdle
    /\ AdapterIdle
    /\ env \in [openai : BOOLEAN, gemini : BOOLEAN]
    /\ providers = <<>>
    /\ instances = <<>>
    /\ defaultProvider = "mock"
    /\ request = [providerName |-> "", isValid |-> FALSE]
    /\ rpc = "new"
    /\ invoked = <<>>
    /\ outcome = "none"
    /\ query = [op |-> "none"]

\* the constructor
Construct ==
    /\ rpc = "new"
    /\ IF impl = "backend"
       THEN /\ providers' = initializeProviders(env).keys
            /\ instances' = initializeProviders(env).values
            /\ defaultProvider' = initializeProviders(env).default
       ELSE /\ providers' = MapSet(providers, "mock")
            /\ instances' = MapSetValue(providers, instances, "mock",
                                        Provider("MockAIProvider", "startup"))
            /\ UNCHANGED defaultProvider
    /\ rpc' = "idle"
    /\ UNCHANGED <<env, request, invoked, outcome, query>>
    /\ UNCHANGED exceptRegistry

\* copy: registerProvider(name, provider)
RegisterProvider ==
    /\ impl = "copy"
    /\ rpc = "idle"
    /\ \E name \in RegisterNames, provider \in RegisterProviders :
          /\ providers' = MapSet(providers, name)
          /\ instances' = MapSetValue(providers, instances, name, provider)
    /\ UNCHANGED <<env, defaultProvider, request, rpc, invoked, outcome, query>>
    /\ UNCHANGED exceptRegistry

\* generateTestCases is called with a provider name
Request ==
    /\ rpc \in {"idle", "failed", "returned"}
    /\ \E name \in RequestNames :
          request' = [providerName |-> name, isValid |-> FALSE]
    /\ rpc' = "lookup"
    /\ invoked' = <<>>
    /\ outcome' = "none"
    /\ UNCHANGED <<env, providers, defaultProvider>>
    /\ UNCHANGED <<instances, query>>
    /\ UNCHANGED exceptRegistry

\* if (!provider) throw new Error(`Provider ${providerName} not found`)
NotFound ==
    /\ rpc = "lookup"
    /\ ~Registered(Resolve(impl, request.providerName))
    /\ rpc' = "failed"
    /\ outcome' = "NotFound"
    /\ UNCHANGED <<env, providers, defaultProvider, request, invoked>>
    /\ UNCHANGED <<instances, query>>
    /\ UNCHANGED exceptRegistry

\* provider.validateConfiguration() is called and awaited
CallValidate ==
    /\ rpc = "lookup"
    /\ Registered(Resolve(impl, request.providerName))
    /\ rpc' = "validating"
    /\ invoked' = Append(invoked,
                         Invocation(Resolve(impl, request.providerName),
                                    "validateConfiguration", "call"))
    /\ UNCHANGED <<env, providers, defaultProvider, request, outcome>>
    /\ UNCHANGED <<instances, query>>
    /\ UNCHANGED exceptRegistry

\* validateConfiguration resolves with isValid
ValidateReturns ==
    /\ rpc = "validating"
    /\ \E isValid \in
             ValidationOutcomes(InstanceOf(Resolve(impl, request.providerName))) :
          request' = [request EXCEPT !.isValid = isValid]
    /\ rpc' = "validated"
    /\ invoked' = Append(invoked,
                         Invocation(Resolve(impl, request.providerName),
                                    "validateConfiguration", "return"))
    /\ UNCHANGED <<env, providers, defaultProvider, outcome>>
    /\ UNCHANGED <<instances, query>>
    /\ UNCHANGED exceptRegistry

\* if (!isValid) throw new Error(`... configuration is invalid`)
Misconfigured ==
    /\ rpc = "validated"
    /\ Rejects(request.isValid)
    /\ rpc' = "failed"
    /\ outcome' = "Misconfigured"
    /\ UNCHANGED <<env, providers, defaultProvider, request, invoked>>
    /\ UNCHANGED <<instances, query>>
    /\ UNCHANGED exceptRegistry

\* return provider.generateTestCases(context)
Delegate ==
    /\ rpc = "validated"
    /\ ~Rejects(request.isValid)
    /\ rpc' = "returned"
    /\ invoked' = Append(invoked,
                         Invocation(Resolve(impl, request.providerName),
                                    "generateTestCases", "call"))
    /\ outcome' = "Result"
    /\ UNCHANGED <<env, providers, defaultProvider, request>>
    /\ UNCHANGED <<instances, query>>
    /\ UNCHANGED exceptRegistry

\* the keys whose validateConfiguration returned true, in the order of the
\* keys: validProviders after the loop of getAvailableProviders
RECURSIVE ValidProviders(_, _, _)
ValidProviders(keys, isValid, k) ==
    IF k > Len(keys) THEN <<>>
    ELSE (IF isValid[k] THEN <<keys[k]>> ELSE <<>>)
           \o ValidProviders(keys, isValid, k + 1)

\* getAvailableProviders: the keys of the map (copy), the keys whose
\* provider passes validateConfiguration (backend)
GetAvailableProviders ==
    /\ rpc # "new"
    /\ IF impl = "backend"
       THEN \E isValid \in [1..Len(providers) -> BOOLEAN] :
               /\ \A k \in 1..Len(providers) :
                     isValid[k] \in ValidationOutcomes(instances[k])
               /\ query' = [op |-> "getAvailableProviders",
                            result |-> ValidProviders(providers, isValid, 1)]
       ELSE query' = [op |-> "getAvailableProviders", result |-> providers]
    /\ UNCHANGED <<env, providers, instances, defaultProvider, request, rpc,
                   invoked, outcome>>
    /\ UNCHANGED exceptRegistry

\* backend: getDefaultProvider
GetDefaultProvider ==
    /\ impl = "backend"
    /\ rpc # "new"
    /\ query' = [op |-> "getDefaultProvider", result |-> defaultProvider]
    /\ UNCHANGED <<env, providers, instances, defaultProvider, request, rpc,
                   invoked, outcome>>
    /\ UNCHANGED exceptRegistry

\* copy: validateProvider(providerName): false without a provider of that
\* name, else what its validateConfiguration returns
ValidateProvider ==
    /\ impl = "copy"
    /\ rpc # "new"
    /\ \E name \in RequestNames :
          \E isValid \in (IF Registered(name)
                          THEN ValidationOutcomes(InstanceOf(name))
                          ELSE {FALSE}) :
             query' = [op |-> "validateProvider", providerName |-> name,
                       result |-> isValid]
    /\ UNCHANGED <<env, providers, instances, defaultProvider, request, rpc,
                   invoked, outcome>>
    /\ UNCHANGED exceptRegistry

RegistryNext ==
    \/ Construct
    \/ RegisterProvider
    \/ GetAvailableProviders
    \/ GetDefaultProvider
    \/ ValidateProvider
    \/ Request
    \/ NotFound
    \/ CallValidate
    \/ ValidateReturns
    \/ Misconfigured
    \/ Delegate

RegistrySpec == RegistryInit /\ [][RegistryNext]_vars

\* a request is being served or has ended
Serving == rpc \in {"lookup", "validating", "validated", "failed", "returned"}

\* the names registered, as the set of keys of the provider map
ProviderNames == {providers[k] : k \in 1..Len(providers)}

\* C18: a generate request that names a provider which is not registered
\* fails with the not-found error, and no method of any provider is invoked
\* in that call.
C18_NotFound ==
    (/\ Serving
     /\ request.providerName # ""
     /\ request.providerName \notin ProviderNames) =>
        /\ rpc \in {"lookup", "failed"}
        /\ invoked = <<>>
        /\ rpc = "failed" => outcome = "NotFound"

\* C18 witness: with openai and mock registered, a request naming gemini
\* has failed with the not-found error and nothing was invoked.
C18_Witness ==
    /\ rpc = "failed"
    /\ outcome = "NotFound"
    /\ request.providerName = "gemini"
    /\ ProviderNames = {"openai", "mock"}
    /\ invoked = <<>>

\* the invocations of a request that runs to the end on provider name
FullCall(name) ==
    <<Invocation(name, "validateConfiguration", "call"),
      Invocation(name, "validateConfiguration", "return"),
      Invocation(name, "generateTestCases", "call")>>

\* C19: in a generate request on a registered name, validateConfiguration
\* of the named provider is invoked and completes before its
\* generateTestCases is invoked; when it returns false the request fails
\* with the misconfigured error and generateTestCases is never invoked; no
\* other provider is touched.
C19_ValidateBeforeGenerate ==
    (/\ Serving
     /\ request.providerName \in ProviderNames) =>
        /\ Len(invoked) <= 3
        /\ invoked = SubSeq(FullCall(request.providerName), 1, Len(invoked))
        /\ rpc = "failed" =>
              /\ outcome = "Misconfigured"
              /\ ~request.isValid
              /\ Len(invoked) = 2
        /\ (rpc = "validated" /\ ~request.isValid) => Len(invoked) = 2
        /\ rpc = "returned" =>
              /\ outcome = "Result"
              /\ request.isValid
              /\ Len(invoked) = 3

\* C19 witness: with gemini and mock registered, a request naming gemini
\* has failed with the misconfigured error after validateConfiguration
\* returned false.
C19_Witness ==
    /\ rpc = "failed"
    /\ outcome = "Misconfigured"
    /\ request.providerName = "gemini"
    /\ ProviderNames = {"gemini", "mock"}
    /\ Len(invoked) = 2

\* C20: once the registry is initialized the default provider name is the
\* first provider configured from the credentials, openai before gemini,
\* and 'mock' when there is none; it is always a key of the provider map.
C20_DefaultProvider ==
    rpc # "new" =>
        /\ defaultProvider \in ProviderNames
        /\ impl = "backend" =>
              defaultProvider = (IF env.openai THEN "openai"
                                 ELSE IF env.gemini THEN "gemini" ELSE "mock")
        /\ impl = "copy" => defaultProvider = "mock"

\* C20 witness: both credentials are present and the default is openai.
C20_Witness ==
    /\ rpc = "idle"
    /\ impl = "backend"
    /\ env.openai
    /\ env.gemini
    /\ defaultProvider = "openai"
    /\ ProviderNames = {"openai", "gemini", "mock"}

\* C21: once the registry is constructed, 'mock' is a key of the provider
\* map bound to a deterministic provider, whose validateConfiguration returns
\* true; every list of available providers names 'mock'; a generate request
\* naming 'mock' ends neither with the not-found nor with the misconfigured
\* error.
C21_MockAlwaysAvailable ==
    rpc # "new" =>
        /\ "mock" \in ProviderNames
        /\ InstanceOf("mock").class = "MockAIProvider"
        /\ query.op = "getAvailableProviders" =>
              \E k \in 1..Len(query.result) : query.result[k] = "mock"
        /\ (Serving /\ request.providerName = "mock") =>
              /\ outcome \notin {"NotFound", "Misconfigured"}
              /\ rpc \in {"validated", "returned"} => request.isValid

\* C23: once the constructor has returned, no public operation of the
\* registry changes the registered names, the provider bound to a name, or
\* the default provider name.
C23_ReadOnlyAfterInit ==
    [][rpc # "new" =>
          /\ providers' = providers
          /\ instances' = instances
          /\ defaultProvider' = defaultProvider]_vars

-----------------------------------------------------------------------------
(* Prompt Builder: BaseAIProvider.buildAirlinePrompt.  The prompt is kept   *)
(* as the parts of the template literal: the fixed blocks by their          *)
(* headings, the interpolated values as the strings `${...}` gives.         *)

\* Array.prototype.join
RECURSIVE Join(_, _)
Join(items, separator) ==
    IF items = <<>> THEN ""
    ELSE IF Len(items) = 1 THEN items[1]
    ELSE items[1] \o separator \o Join(Tail(items), separator)

\* `${flag}` for a boolean
BooleanText(flag) == IF flag THEN "true" ELSE "false"

\* moduleDescriptions[m] || 'Module functionality'
ModuleDescription(m) ==
    CASE m = "new_request" -> "Initial booking request creation with passenger details, route selection, and fare calculation"
      [] m = "request_processing" -> "Processing booking requests through workflow states and validation"
      [] m = "fare_approval" -> "Fare validation, approval workflow, and pricing rule verification"
      [] m = "fare_quotation" -> "Fare quoting for negotiated requests and special pricing"
      [] m = "rm_review" -> "Revenue management review and approval processes"
      [] m = "payment_processing" -> "Payment handling including single and split payments, PCI compliance"
      [] m = "name_list_update" -> "Passenger name modifications and PNR updates"
      [] m = "ticketing" -> "Ticket issuance, e-ticket generation, and delivery"
      [] m = "upsize" -> "Adding passengers to existing bookings"
      [] m = "downsize" -> "Removing passengers from bookings"
      [] m = "divide" -> "Splitting bookings into separate PNRs"
      [] m = "change_itinerary" -> "Route and schedule modifications"
      [] m = "partial_modify" -> "Partial booking modifications"
      [] m = "negotiation" -> "Fare negotiation workflows and approval chains"
      [] OTHER -> "Module functionality"

\* modules.map(m => `${m}: ${...}`).join('\n')
getModuleContext(modules) ==
    Join([k \in 1..Len(modules) |->
            modules[k] \o ": " \o ModuleDescription(modules[k])], "\n")

\* contexts[userType] || ''
getUserTypeContext(userType) ==
    CASE userType = "airline_user" -> "Full system access - can quote fares, approve requests, process payments, issue tickets, and perform all modifications"
      [] userType = "travel_agent" -> "Can raise requests, accept bookings, process payments, update name lists, and issue tickets"
      [] userType = "retail_user" -> "Limited access to basic booking functions and modifications"
      [] OTHER -> ""

\* the fixed block of business rules, by its heading
getAirlineBusinessRules == "AIRLINE BUSINESS RULES:"

\* one line `Label: ${value}` of the template
PromptLine(label, text) == [label |-> label, text |-> text]

\* the lines the template writes for one story
StoryBlock(userStory) ==
    <<PromptLine("ID", userStory.id),
      PromptLine("Description", userStory.description),
      PromptLine("As a", userStory.asA),
      PromptLine("I want", userStory.iWant),
      PromptLine("So that", userStory.soThat),
      PromptLine("Given", userStory.given),
      PromptLine("When", userStory.when),
      PromptLine("Then", userStory.then),
      PromptLine("Acceptance Criteria", userStory.acceptanceCriteria)>>

\* `${context.userStories[0]?.id}`
FirstStoryId(ctx) ==
    IF ctx.userStories = <<>> THEN "undefined" ELSE ctx.userStories[1].id

buildAirlinePrompt(ctx) ==
    [domain |-> getAirlineBusinessRules,
     userType |-> PromptLine("USER TYPE", ctx.userType),
     userTypeContext |-> getUserTypeContext(ctx.userType),
     modules |-> PromptLine("MODULES", Join(ctx.selectedModules, ", ")),
     moduleContext |-> getModuleContext(ctx.selectedModules),
     options |->
        <<PromptLine("TESTING SCOPE", ctx.testingScope),
          PromptLine("Include Negative Tests",
                     BooleanText(ctx.includeNegativeTests)),
          PromptLine("Include Performance Tests",
                     BooleanText(ctx.includePerformanceTests)),
          PromptLine("Include Security Tests",
                     BooleanText(ctx.includeSecurityTests))>>,
     userStories |-> [k \in 1..Len(ctx.userStories) |->
                        StoryBlock(ctx.userStories[k])],
     requirements |-> "REQUIREMENTS:",
     outputFormat |-> <<PromptLine("userType", ctx.userType),
                        PromptLine("sourceStoryId", FirstStoryId(ctx))>>]

\* two records of a ParseResult whose fields all differ, the second with the
\* defaults of the row normalizer
PromptStories ==
    {[id |-> "US-7", description |-> "Book a seat", asA |-> "Agent",
      iWant |-> "to book", soThat |-> "the seat is held",
      acceptanceCriteria |-> "Seat is held", requirements |-> "REQ-1",
      given |-> "Given a flight", when |-> "When I book",
      then |-> "Then I hold a seat", notes |-> "peak season",
      acId |-> "AC-1", tags |-> <<"smoke", "booking">>, priority |-> "high"],
     [id |-> "US-003", description |-> "Login works", asA |-> "User",
      iWant |-> "Login works", soThat |-> "I can achieve my goal",
      acceptanceCriteria |-> "", requirements |-> "",
      given |-> "Given I am on login page", when |-> "When I submit",
      then |-> "Then I see the dashboard", notes |-> "",
      acId |-> "", tags |-> <<>>, priority |-> "medium"]}

\* selections of modules: none, a known one, a known and an unknown one
PromptModules == {<<>>, <<"ticketing">>, <<"ticketing", "custom_module">>}

PromptContexts ==
    {[userStories |-> us, selectedModules |-> ms, userType |-> ut,
      testingScope |-> o.testingScope,
      includeNegativeTests |-> neg,
      includePerformanceTests |-> o.includePerformanceTests,
      includeSecurityTests |-> o.includeSecurityTests] :
        us \in UNION {[1..n -> PromptStories] : n \in 0..MaxStories},
        ms \in PromptModules,
        ut \in {"airline_user", "AIRLINE_USER"},
        neg \in BOOLEAN, o \in MockSettings}

-----------------------------------------------------------------------------
(* Remote adapters: OpenAIProvider.generateTestCases and                    *)
(* GeminiProvider.generateTestCases.  The external service is the           *)
(* environment: its call rejects with an Error or resolves with a response, *)
(* whose text is one of a few literal texts, bare or inside a markdown      *)
(* fence.                                                                   *)

AdapterClasses == {"OpenAIProvider", "GeminiProvider"}

\* this.name
ProviderName(class) ==
    IF class = "OpenAIProvider" THEN "OpenAI" ELSE "Google Gemini"

\* the texts a response may carry
ResponseTexts ==
    {"", "Sorry, I cannot help with that.", "null", "{}",
     "{\"testCases\":\"none\"}", "{\"testCases\":[]}",
     "{\"testCases\":[{\"id\":\"TC_001\"}]}"}

\* what the external call may do: reject, resolve without a text
\* (choices[0]?.message?.content undefined; response.text() throwing), or
\* resolve with a text
ServiceOutcomes ==
    {[kind |-> "rejects", fenced |-> FALSE, text |-> "Request timed out"],
     [kind |-> "no text", fenced |-> FALSE, text |-> ""]}
    \cup {[kind |-> "text", fenced |-> f, text |-> t] :
            f \in BOOLEAN, t \in ResponseTexts}

\* a thrown Error, by its message
Thrown(message) == [ok |-> FALSE, message |-> message]

\* JSON.parse on the texts of the model: the value, or the SyntaxError
JSONParse(text) ==
    CASE text = "null" -> [ok |-> TRUE, type |-> "null"]
      [] text = "{}" ->
           [ok |-> TRUE, type |-> "object",
            testCases |-> [type |-> "undefined"]]
      [] text = "{\"testCases\":\"none\"}" ->
           [ok |-> TRUE, type |-> "object",
            testCases |-> [type |-> "string", text |-> "none"]]
      [] text = "{\"testCases\":[]}" ->
           [ok |-> TRUE, type |-> "object",
            testCases |-> [type |-> "array", items |-> <<>>]]
      [] text = "{\"testCases\":[{\"id\":\"TC_001\"}]}" ->
           [ok |-> TRUE, type |-> "object",
            testCases |-> [type |-> "array", items |-> <<[id |-> "TC_001"]>>]]
      [] text = "" -> Thrown("Unexpected end of JSON input")
      [] OTHER -> Thrown("Unexpected token")

\* the text handed to JSON.parse, or the Error thrown before: OpenAI parses
\* the content as it came and throws on a falsy one, Gemini strips the fence
\* and trims
ParsedResponse(class, response) ==
    IF class = "OpenAIProvider"
    THEN IF response.kind = "no text" \/ (response.text = "" /\ ~response.fenced)
         THEN Thrown("No content received from OpenAI")
         ELSE IF response.fenced THEN Thrown("Unexpected token")
         ELSE JSONParse(response.text)
    ELSE IF response.kind = "no text"
         THEN Thrown("Response was blocked")
         ELSE JSONParse(response.text)

\* value.length of a string or an array
LengthOf(value) ==
    IF value.type = "array" THEN Len(value.items) ELSE Len(value.text)

\* parsedResponse.testCases || []; reading testCases of null throws
TestCasesOf(parsed) ==
    IF ~parsed.ok THEN parsed
    ELSE IF parsed.type = "null"
    THEN Thrown("Cannot read properties of null (reading 'testCases')")
    ELSE IF parsed.testCases.type = "undefined"
    THEN [ok |-> TRUE, value |-> [type |-> "array", items |-> <<>>]]
    ELSE [ok |-> TRUE, value |-> parsed.testCases]

\* what the try block of generateTestCases comes to: the testCases value,
\* or the Error thrown by the awaited call or by the parsing
TryBlock(class, response) ==
    IF response.kind = "rejects" THEN Thrown(response.text)
    ELSE TestCasesOf(ParsedResponse(class, response))

\* the result of the try block
SuccessResult(class, cases, generationTime) ==
    [testCases |-> cases,
     generationTime |-> generationTime,
     provider |-> ProviderName(class),
     metadata |-> [totalGenerated |-> LengthOf(cases),
                   successful |-> LengthOf(cases),
                   failed |-> 0,
                   warnings |-> <<>>]]

\* the result of the catch block
FailureResult(class, message, generationTime) ==
    [testCases |-> [type |-> "array", items |-> <<>>],
     generationTime |-> generationTime,
     provider |-> ProviderName(class),
     metadata |-> [totalGenerated |-> 0,
                   successful |-> 0,
                   failed |-> 1,
                   warnings |-> <<"Generation failed: " \o message>>]]

\* generateTestCases entered on a provider object with a context
AdapterInit ==
    /\ impl = "backend"
    /\ ParserIdle
    /\ ValidatorIdle
    /\ SessionIdle
    /\ MockIdle
    /\ RegistryIdle
    /\ \E class \in AdapterClasses, ctx \in PromptContexts :
          adapter = [pc |-> "start", class |-> class, context |-> ctx]
    /\ exchange = [sent |-> FALSE]
    /\ reply = [kind |-> "none"]

\* const prompt = this.buildAirlinePrompt(context); the external call is
\* made with it
SendPrompt ==
    /\ adapter.pc = "start"
    /\ adapter' = [adapter EXCEPT !.pc = "awaiting"]
    /\ exchange' = [sent |-> TRUE, answered |-> FALSE,
                    prompt |-> buildAirlinePrompt(adapter.context)]
    /\ UNCHANGED reply
    /\ UNCHANGED exceptAdapter

\* the awaited call settles
ServiceSettles ==
    /\ adapter.pc = "awaiting"
    /\ \E response \in ServiceOutcomes :
          exchange' = [sent |-> TRUE, answered |-> TRUE,
                       prompt |-> exchange.prompt, response |-> response]
    /\ adapter' = [adapter EXCEPT !.pc = "settled"]
    /\ UNCHANGED reply
    /\ UNCHANGED exceptAdapter

\* the rest of the try block: the content is parsed and the result returned
ReturnParsed ==
    /\ adapter.pc = "settled"
    /\ TryBlock(adapter.class, exchange.response).ok
    /\ \E generationTime \in 0..MaxClock :
          reply' = [kind |-> "returned",
                    value |-> SuccessResult(
                                adapter.class,
                                TryBlock(adapter.class, exchange.response).value,
                                generationTime)]
    /\ adapter' = [adapter EXCEPT !.pc = "done"]
    /\ UNCHANGED exchange
    /\ UNCHANGED exceptAdapter

\* the catch block: the failure result is returned
CatchReturns ==
    /\ adapter.pc = "settled"
    /\ ~TryBlock(adapter.class, exchange.response).ok
    /\ \E generationTime \in 0..MaxClock :
          reply' = [kind |-> "returned",
                    value |-> FailureResult(
                                adapter.class,
                                TryBlock(adapter.class, exchange.response).message,
                                generationTime)]
    /\ adapter' = [adapter EXCEPT !.pc = "done"]
    /\ UNCHANGED exchange
    /\ UNCHANGED exceptAdapter

AdapterNext ==
    \/ SendPrompt
    \/ ServiceSettles
    \/ ReturnParsed
    \/ CatchReturns

AdapterSpec == AdapterInit /\ [][AdapterNext]_vars

\* the texts that are valid JSON of the expected shape: an object with an
\* array testCases
ExpectedTexts ==
    {"{\"testCases\":[]}", "{\"testCases\":[{\"id\":\"TC_001\"}]}"}

\* the external call failed: it rejected, it gave no or an empty text, or
\* the text, fence set aside, is not valid JSON of the expected shape
FailureOutcome(response) ==
    \/ response.kind \in {"rejects", "no text"}
    \/ response.text \notin ExpectedTexts

\* C22: whenever the external generation call rejects, yields empty content
\* or yields a text that is not valid JSON of the expected shape, the
\* adapter's generateTestCases returns a result that reports the failure
\* (failed count at least 1), with no artifacts and with a warning, and
\* does not throw.
C22_FailureIsolation ==
    (adapter.pc = "done" /\ FailureOutcome(exchange.response)) =>
        /\ reply.kind = "returned"
        /\ reply.value.testCases = [type |-> "array", items |-> <<>>]
        /\ reply.value.metadata.failed >= 1
        /\ reply.value.metadata.warnings # <<>>

\* the fields of a story record
StoryFields ==
    {"id", "description", "asA", "iWant", "soThat", "acceptanceCriteria",
     "requirements", "given", "when", "then", "notes", "acId", "tags",
     "priority"}

\* the text `${...}` gives for a field of a story
FieldText(userStory, field) ==
    IF field = "tags" THEN Join(userStory.tags, ",") ELSE userStory[field]

\* C24: the prompt built for a context holds one block per selected story,
\* in selection order, and the block of a story holds the text of every
\* field of that story.
C24_PromptCompleteness ==
    exchange.sent =>
        LET ctx == adapter.context
            blocks == exchange.prompt.userStories
        IN /\ Len(blocks) = Len(ctx.userStories)
           /\ \A k \in 1..Len(ctx.userStories) : \A field \in StoryFields :
                 \E n \in 1..Len(blocks[k]) :
                    blocks[k][n].text = FieldText(ctx.userStories[k], field)

-----------------------------------------------------------------------------
(* Properties of the row normalizer and the mapper stated on the raw cells. *)

\* the text the raw cell of a field stands for: empty when the field has no
\* column or the row ends before it, else the string form of the cell,
\* trimmed
CellText(row, field) ==
    LET index == columnMapping.mapping[field]
    IN IF index = Absent \/ index >= Len(row) THEN ""
       ELSE Trim(StringOf(row[index + 1])).text

\* the fields a record takes from its cells without a default
PlainFields ==
    {"description", "given", "when", "then", "acceptanceCriteria",
     "requirements", "notes"}

\* C25: the value extracted for a field is the empty string when the field
\* has no column or the row ends before it, and else the trimmed string form
\* of the raw cell, the number 0 and the boolean false included: a data row
\* whose four required cells have a non-empty text yields a record that
\* carries the text of its cells.
C25_CellExtraction ==
    Mapped =>
        \A k \in 1..rowIndex :
            (\A f \in requiredFields : CellText(dataRows[k], f) # "") =>
                \E n \in 1..Len(stories) :
                    \A f \in PlainFields :
                        stories[n][f] = CellText(dataRows[k], f)

\* the fields of the returned mapping that were given a column
MappedFields == {f \in DOMAIN columnMapping.mapping :
                   columnMapping.mapping[f] # Absent}

\* C27: in a mapping the mapper returns, no two fields share a column, and
\* every column a field was given is a valid 0-based index of the header row.
C27_MappingInjective ==
    (MapperRan /\ ~columnMapping.isNull) =>
        \A f \in MappedFields :
            /\ columnMapping.mapping[f] \in 0..(Len(headerRow) - 1)
            /\ \A g \in MappedFields \ {f} :
                   columnMapping.mapping[g] # columnMapping.mapping[f]

\* C27 witness: a header row with all four required columns and a fifth
\* header that the patterns of two fields accept was mapped, and both of
\* these fields have a column.
C27_Witness ==
    /\ MapperRan
    /\ ~columnMapping.isNull
    /\ Len(headerRow) = 5
    /\ headerRow[5] = Str("Outcome")
    /\ {"soThat", "then"} \subseteq MappedFields
    /\ columnMapping.mapping["then"] = 3
    /\ columnMapping.mapping["soThat"] = 4

-----------------------------------------------------------------------------
(* A record of a returned ParseResult handed to the Record Validator: the   *)
(* client posts one element of `data` to POST /validate (backend), or       *)
(* passes it to validateGherkinStory (copy).                                *)

\* the characters of the strings the data cells hold
Characters(text) ==
    CASE text = "" -> <<>>
      [] text = "x" -> <<"x">>
      [] text = "n" -> <<"n">>
      [] text = "0" -> <<"0">>
      [] text = "true" -> <<"t", "r", "u", "e">>
      [] text = "US-7" -> <<"U", "S", "-", "7">>
      [] text = "Login works" ->
           <<"L", "o", "g", "i", "n", " ", "w", "o", "r", "k", "s">>
      [] text = "Given A" -> <<"G", "i", "v", "e", "n", " ", "A">>
      [] text = "When B" -> <<"W", "h", "e", "n", " ", "B">>
      [] text = "Then C" -> <<"T", "h", "e", "n", " ", "C">>

\* the fields of a parsed story the validator reads
RecordOf(userStory) ==
    [present |-> TRUE,
     description |-> Text(Characters(userStory.description)),
     given |-> Text(Characters(userStory.given)),
     when |-> Text(Characters(userStory.when)),
     then |-> Text(Characters(userStory.then))]

\* the validator is called on a record of the ParseResult and returns
ValidateParsed ==
    /\ pc = "done"
    /\ validation = [called |-> FALSE]
    /\ \E k \in 1..Len(result.data) :
          /\ story' = RecordOf(result.data[k])
          /\ passed' = story'
          /\ validation' = IF impl = "backend" THEN validateUserStory(story')
                           ELSE validateGherkinStory(story')
    /\ UNCHANGED exceptValidator

ParseThenValidateNext ==
    \/ Next
    \/ ValidateParsed

ParseThenValidateSpec == Init /\ [][ParseThenValidateNext]_vars

\* C28: every record of a returned ParseResult has non-empty description,
\* given, when and then without leading or trailing whitespace, and the
\* Record Validator run on such a record reports no 'is required' error.
C28_RequiredFieldsAgree ==
    /\ pc = "done" =>
          \A k \in 1..Len(result.data) : \A f \in requiredFields :
              LET chars == Characters(result.data[k][f])
              IN chars # <<>> /\ TrimChars(chars) = chars
    /\ (pc = "done" /\ validation.called) =>
          \A f \in requiredFields : Reported(Wordings(f)) = 0

\* C28 witness: the validator ran on a parsed record whose given does not
\* start with the keyword and reported the lexical error of given.
C28_Witness ==
    /\ pc = "done"
    /\ validation.called
    /\ passed.given = Text(<<"x">>)
    /\ Reported(LexicalWordings("given")) = 1

-----------------------------------------------------------------------------
(* Properties of the Record Validator stated per field. *)

GherkinFields == {"given", "when", "then"}

\* the trimmed text of the field starts with its keyword, letter case aside
TrimmedOnKeyword(value, keyword) ==
    /\ value.defined
    /\ StartsWith(LowerChars(TrimChars(value.chars)), keyword)

\* C29: for each of given, when, then the validator reports at most one
\* error about the field (a field reported as missing, whitespace-only
\* included, is not also reported as off the lexical convention), and it
\* reports none about a field whose trimmed text starts with the keyword.
C29_OneErrorPerField ==
    validation.called =>
        \A f \in GherkinFields :
            /\ Reported(Wordings(f) \cup LexicalWordings(f)) <= 1
            /\ TrimmedOnKeyword(passed[f], KeywordOf(f)) =>
                   Reported(Wordings(f) \cup LexicalWordings(f)) = 0

====
